---- MODULE Spec2Model ----
(***************************************************************************)
(* Rockerfile parser (rockerfile-parser/src/parser.rs, stage.rs).          *)
(*                                                                         *)
(* A text is a sequence of one-character strings.  Option<T> is a sequence *)
(* of length 0 (None) or 1 (Some).  Positions returned by the Find         *)
(* operators are 1-based, 0 meaning "not found".                           *)
(***************************************************************************)
EXTENDS Integers, Sequences, FiniteSets, TLC

VARIABLES stages, current_stage, call_content, lines, i, pc, result, calls, used,
          dispatched

vars == <<stages, current_stage, call_content, lines, i, pc, result, calls, used, dispatched>>

----------------------------------------------------------------------------
(* Bounds of the model.                                                    *)

\* physical lines fed to one parser object, over all its parse_content calls
MaxLines == 3
\* parse_content calls made on one parser object
MaxCalls == 2

----------------------------------------------------------------------------
(* Text primitives of the Rust standard library, as the parser uses them.  *)

None == <<>>
Some(x) == <<x>>

\* char::is_whitespace, on the characters of the model
IsWhitespace(c) == c \in {" ", "\t", "\n"}

StartsWith(s, p) == Len(s) >= Len(p) /\ SubSeq(s, 1, Len(p)) = p

EndsWith(s, p) == Len(s) >= Len(p) /\ SubSeq(s, Len(s) - Len(p) + 1, Len(s)) = p

\* str::find(char): 1-based position of the first c, 0 when there is none
FindChar(s, c) ==
    IF \E k \in 1..Len(s) : s[k] = c
    THEN CHOOSE k \in 1..Len(s) : s[k] = c /\ \A j \in 1..(k - 1) : s[j] # c
    ELSE 0

\* position of the last c, 0 when there is none
RFindChar(s, c) ==
    IF \E k \in 1..Len(s) : s[k] = c
    THEN CHOOSE k \in 1..Len(s) : s[k] = c /\ \A j \in (k + 1)..Len(s) : s[j] # c
    ELSE 0

\* str::find(&str)
FindStr(s, p) ==
    LET hit(k) == SubSeq(s, k, k + Len(p) - 1) = p
        last == Len(s) - Len(p) + 1
    IN  IF \E k \in 1..last : hit(k)
        THEN CHOOSE k \in 1..last : hit(k) /\ \A j \in 1..(k - 1) : ~hit(j)
        ELSE 0

TrimStart(s) ==
    IF \A k \in 1..Len(s) : IsWhitespace(s[k]) THEN <<>>
    ELSE SubSeq(s, CHOOSE k \in 1..Len(s) :
                       ~IsWhitespace(s[k]) /\ \A j \in 1..(k - 1) : IsWhitespace(s[j]),
                Len(s))

TrimEnd(s) ==
    IF \A k \in 1..Len(s) : IsWhitespace(s[k]) THEN <<>>
    ELSE SubSeq(s, 1, CHOOSE k \in 1..Len(s) :
                       ~IsWhitespace(s[k]) /\ \A j \in (k + 1)..Len(s) : IsWhitespace(s[j]))

Trim(s) == TrimEnd(TrimStart(s))

\* s.splitn(2, c).collect(): one part when c does not occur, else two
SplitN2(s, c) ==
    LET k == FindChar(s, c)
    IN  IF k = 0 THEN <<s>> ELSE <<SubSeq(s, 1, k - 1), SubSeq(s, k + 1, Len(s))>>

\* s.splitn(2, pattern).collect() for a string pattern
SplitN2Str(s, p) ==
    LET k == FindStr(s, p)
    IN  IF k = 0 THEN <<s>>
        ELSE <<SubSeq(s, 1, k - 1), SubSeq(s, k + Len(p), Len(s))>>

\* s.rsplitn(2, c).collect(): the part after the last c comes first
RSplitN2(s, c) ==
    LET k == RFindChar(s, c)
    IN  IF k = 0 THEN <<s>> ELSE <<SubSeq(s, k + 1, Len(s)), SubSeq(s, 1, k - 1)>>

\* s.split_whitespace().collect()
RECURSIVE SplitWhitespace(_)
SplitWhitespace(s) ==
    LET t == TrimStart(s)
    IN  IF t = <<>> THEN <<>>
        ELSE LET e == IF \E k \in 1..Len(t) : IsWhitespace(t[k])
                      THEN (CHOOSE k \in 1..Len(t) :
                               IsWhitespace(t[k]) /\ \A j \in 1..(k - 1) : ~IsWhitespace(t[j])) - 1
                      ELSE Len(t)
             IN  <<SubSeq(t, 1, e)>> \o SplitWhitespace(SubSeq(t, e + 1, Len(t)))

\* s.lines().collect(): split at "\n"; a final empty piece is not a line
RECURSIVE SplitLines(_)
SplitLines(s) ==
    IF s = <<>> THEN <<>>
    ELSE LET k == FindChar(s, "\n")
         IN  IF k = 0 THEN <<s>>
             ELSE <<SubSeq(s, 1, k - 1)>> \o SplitLines(SubSeq(s, k + 1, Len(s)))

LowerLetters == <<"a", "b", "c", "d", "e", "f", "g", "h", "i", "j", "k", "l", "m", "n", "o", "p", "q", "r", "s", "t", "u", "v", "w", "x", "y", "z">>
UpperLetters == <<"A", "B", "C", "D", "E", "F", "G", "H", "I", "J", "K", "L", "M", "N", "O", "P", "Q", "R", "S", "T", "U", "V", "W", "X", "Y", "Z">>

\* char::to_uppercase on the characters of the model (ASCII)
UpperChar(c) ==
    IF \E k \in 1..Len(LowerLetters) : LowerLetters[k] = c
    THEN UpperLetters[CHOOSE k \in 1..Len(LowerLetters) : LowerLetters[k] = c]
    ELSE c

\* str::to_uppercase
ToUppercase(s) == [k \in 1..Len(s) |-> UpperChar(s[k])]

----------------------------------------------------------------------------
(* Stage (stage.rs) and the outcomes of a per-instruction parser.          *)

\* Stage::new
StageNew(name) == [name |-> name, base_image |-> None, instructions |-> <<>>]

\* add_instruction that never records the base image
AddInstruction_NoBaseImage(stage, instruction) ==
    [stage EXCEPT !.instructions = Append(@, instruction)]

\* Stage::add_instruction
AddInstruction(stage, instruction) ==
    [stage EXCEPT
        !.base_image = IF instruction.kind = "From" THEN Some(instruction.image) ELSE @,
        !.instructions = Append(@, instruction)]

\* a parser returned Ok(()) and left the accumulator as (st, cur)
Done(st, cur) == [tag |-> "ok", stages |-> st, current_stage |-> cur]

\* a parser returned Err(e) and left the accumulator as (st, cur)
Fail(st, cur, e) == [tag |-> "err", stages |-> st, current_stage |-> cur, err |-> e]

\* a parser panicked (slice out of range, unwrap of None)
Panic(st, cur) == [tag |-> "panic", stages |-> st, current_stage |-> cur]

InvalidInstruction(msg) == [kind |-> "InvalidInstruction", msg |-> msg]
UnknownInstruction(keyword) == [kind |-> "UnknownInstruction", keyword |-> keyword]
JsonError == [kind |-> "Json"]

\* the instruction is added to the first stage, whatever the current one
Push_FirstStage(st, cur, instruction) ==
    Done([st EXCEPT ![1] = AddInstruction(@, instruction)], cur)

\* self.stages[self.current_stage].add_instruction(instruction); Ok(())
Push(st, cur, instruction) ==
    Done([st EXCEPT ![cur + 1] = AddInstruction(@, instruction)], cur)

----------------------------------------------------------------------------
(* serde_json::from_str::<Vec<String>> and str::parse::<u16>.              *)

\* the character a JSON escape \c stands for ("<08>", "<0C>": backspace, form
\* feed); <<>> when \c is no escape.
\* A \u escape needs four hex digits, which no text of the model holds.
JsonEscape(c) ==
    CASE c = "\"" -> <<"\"">>
      [] c = "\\" -> <<"\\">>
      [] c = "/"  -> <<"/">>
      [] c = "n"  -> <<"\n">>
      [] c = "t"  -> <<"\t">>
      [] c = "r"  -> <<"\r">>
      [] c = "b"  -> <<"<08>">>
      [] c = "f"  -> <<"<0C>">>
      [] OTHER    -> <<>>

\* a raw control character, which a JSON string may not hold
IsControl(c) == c \in {"\t", "\n", "\r"}

\* the JSON string whose opening quote is at p - 1: [ok, val, next]
RECURSIVE JsonString(_, _, _)
JsonString(s, p, acc) ==
    IF p > Len(s) THEN [ok |-> FALSE]
    ELSE IF s[p] = "\"" THEN [ok |-> TRUE, val |-> acc, next |-> p + 1]
    ELSE IF s[p] = "\\"
         THEN IF p + 1 > Len(s) \/ JsonEscape(s[p + 1]) = <<>>
              THEN [ok |-> FALSE]
              ELSE JsonString(s, p + 2, acc \o JsonEscape(s[p + 1]))
    ELSE IF IsControl(s[p]) THEN [ok |-> FALSE]
    ELSE JsonString(s, p + 1, Append(acc, s[p]))

\* position of the first character at or after p that is not JSON whitespace
RECURSIVE JsonSkip(_, _)
JsonSkip(s, p) ==
    IF p <= Len(s) /\ s[p] \in {" ", "\t", "\n", "\r"} THEN JsonSkip(s, p + 1) ELSE p

\* the elements of an array from position p on; first tells whether none was read yet
RECURSIVE JsonElements(_, _, _, _)
JsonElements(s, p0, acc, first) ==
    LET p == JsonSkip(s, p0)
    IN  IF p > Len(s) THEN [ok |-> FALSE]
        ELSE IF first /\ s[p] = "]" THEN [ok |-> TRUE, val |-> acc, next |-> p + 1]
        ELSE IF s[p] # "\"" THEN [ok |-> FALSE]
        ELSE LET e == JsonString(s, p + 1, <<>>)
             IN  IF ~e.ok THEN [ok |-> FALSE]
                 ELSE LET q == JsonSkip(s, e.next)
                      IN  IF q > Len(s) THEN [ok |-> FALSE]
                          ELSE IF s[q] = "," THEN JsonElements(s, q + 1, Append(acc, e.val), FALSE)
                          ELSE IF s[q] = "]"
                               THEN [ok |-> TRUE, val |-> Append(acc, e.val), next |-> q + 1]
                          ELSE [ok |-> FALSE]

\* serde_json::from_str::<Vec<String>>(s): [ok, val]
JsonFromStr(s) ==
    LET p == JsonSkip(s, 1)
    IN  IF p > Len(s) \/ s[p] # "[" THEN [ok |-> FALSE]
        ELSE LET a == JsonElements(s, p + 1, <<>>, TRUE)
             IN  IF a.ok /\ JsonSkip(s, a.next) > Len(s)
                 THEN [ok |-> TRUE, val |-> a.val]
                 ELSE [ok |-> FALSE]

Digits == <<"0", "1", "2", "3", "4", "5", "6", "7", "8", "9">>

IsDigit(c) == \E k \in 1..Len(Digits) : Digits[k] = c

DigitValue(c) == (CHOOSE k \in 1..Len(Digits) : Digits[k] = c) - 1

\* the largest u16
U16Max == 65535

\* the value of a run of digits, capped above U16Max so that it stays small
RECURSIVE DecimalValue(_, _)
DecimalValue(s, acc) ==
    IF s = <<>> THEN acc
    ELSE IF acc > U16Max THEN acc
    ELSE DecimalValue(Tail(s), acc * 10 + DigitValue(Head(s)))

\* parse with the range test against a wider integer type
ParseU16_NoRange(s) ==
    LET digits == IF s # <<>> /\ Head(s) = "+" THEN Tail(s) ELSE s
    IN  IF digits = <<>> \/ \E k \in 1..Len(digits) : ~IsDigit(digits[k])
        THEN [ok |-> FALSE]
        ELSE [ok |-> TRUE, val |-> DecimalValue(digits, 0)]

\* s.parse::<u16>(): an optional '+', then one or more digits, at most U16Max
ParseU16(s) ==
    LET digits == IF s # <<>> /\ Head(s) = "+" THEN Tail(s) ELSE s
    IN  IF digits = <<>> \/ \E k \in 1..Len(digits) : ~IsDigit(digits[k])
        THEN [ok |-> FALSE]
        ELSE IF DecimalValue(digits, 0) > U16Max THEN [ok |-> FALSE]
        ELSE [ok |-> TRUE, val |-> DecimalValue(digits, 0)]

----------------------------------------------------------------------------
(* The per-instruction parsers.  Each takes the accumulator (st, cur) and  *)
(* the remainder args of the logical line.                                 *)

\* the n-th item an iterator over parts yields: None once it is exhausted
NextPart(parts, n) == IF n <= Len(parts) THEN Some(parts[n]) ELSE None

\* ParseFrom with the test of the bootstrap stage left out: every FROM pushes
ParseFrom_AlwaysPush(st, cur, args) ==
    LET parts == SplitN2Str(args, <<" ", "A", "S", " ">>)
        image == Trim(NextPart(parts, 1)[1])
        stage_name == IF NextPart(parts, 2) = None THEN None
                      ELSE Some(Trim(NextPart(parts, 2)[1]))
        st1 == Append(st, StageNew(stage_name))
    IN  Push(st1, Len(st1) - 1, [kind |-> "From", image |-> image, as_name |-> None])

\* ParseFrom with the bootstrap stage left unnamed
ParseFrom_NoBootstrapName(st, cur, args) ==
    LET parts == SplitN2Str(args, <<" ", "A", "S", " ">>)
        image == Trim(NextPart(parts, 1)[1])
        stage_name == IF NextPart(parts, 2) = None THEN None
                      ELSE Some(Trim(NextPart(parts, 2)[1]))
        later == st[cur + 1].instructions # <<>>
        st1 == IF later THEN Append(st, StageNew(stage_name)) ELSE st
        cur1 == IF later THEN Len(st1) - 1 ELSE cur
    IN  Push(st1, cur1, [kind |-> "From", image |-> image, as_name |-> None])

\* parse_from that never opens a stage: the From goes into the current one
ParseFrom_NeverPush(st, cur, args) ==
    LET parts == SplitN2Str(args, <<" ", "A", "S", " ">>)
        image == Trim(NextPart(parts, 1)[1])
        stage_name == IF NextPart(parts, 2) = None THEN None
                      ELSE Some(Trim(NextPart(parts, 2)[1]))
        st1 == [st EXCEPT ![cur + 1].name = stage_name]
    IN  Push(st1, cur, [kind |-> "From", image |-> image, as_name |-> None])

\* parse_from without the update of current_stage after the push
ParseFrom_StaleCurrent(st, cur, args) ==
    LET parts == SplitN2Str(args, <<" ", "A", "S", " ">>)
        image == Trim(NextPart(parts, 1)[1])
        stage_name == IF NextPart(parts, 2) = None THEN None
                      ELSE Some(Trim(NextPart(parts, 2)[1]))
        later == st[cur + 1].instructions # <<>>
        st1 == IF later THEN Append(st, StageNew(stage_name))
               ELSE [st EXCEPT ![cur + 1].name = stage_name]
        as_name == IF NextPart(parts, 3) = None THEN None
                   ELSE Some(Trim(NextPart(parts, 3)[1]))
    IN  Push(st1, cur, [kind |-> "From", image |-> image, as_name |-> as_name])

\* parse_from
ParseFrom(st, cur, args) ==
    LET parts == SplitN2Str(args, <<" ", "A", "S", " ">>)
        image == Trim(NextPart(parts, 1)[1])
        stage_name == IF NextPart(parts, 2) = None THEN None
                      ELSE Some(Trim(NextPart(parts, 2)[1]))
        later == st[cur + 1].instructions # <<>>
        st1 == IF later THEN Append(st, StageNew(stage_name))
               ELSE [st EXCEPT ![cur + 1].name = stage_name]
        cur1 == IF later THEN Len(st1) - 1 ELSE cur
        \* the third parts.next() of a splitn(2, ..) iterator
        as_name == IF NextPart(parts, 3) = None THEN None
                   ELSE Some(Trim(NextPart(parts, 3)[1]))
    IN  Push(st1, cur1, [kind |-> "From", image |-> image, as_name |-> as_name])

\* parse_run
ParseRun(st, cur, args) == Push(st, cur, [kind |-> "Run", command |-> args])

\* the option loop with --from accepted only as the first option
RECURSIVE CopyOptions_FromFirst(_, _, _, _)
CopyOptions_FromFirst(copy_args, from, chown, chmod) ==
    IF ~StartsWith(copy_args, <<"-", "-">>)
    THEN [ok |-> TRUE, from |-> from, chown |-> chown, chmod |-> chmod, rest |-> copy_args]
    ELSE LET parts == SplitN2(copy_args, " ")
         IN  IF Len(parts) < 2
             THEN [ok |-> FALSE, err |-> InvalidInstruction(<<"Invalid COPY instruction">>)]
             ELSE LET opt == Trim(parts[1])
                      rest == Trim(parts[2])
                  IN  IF StartsWith(opt, <<"-", "-", "f", "r", "o", "m", "=">>) /\ chown = None /\ chmod = None
                      THEN CopyOptions_FromFirst(rest, Some(SubSeq(opt, 8, Len(opt))),
                                                 chown, chmod)
                      ELSE IF StartsWith(opt, <<"-", "-", "c", "h", "o", "w", "n", "=">>)
                      THEN CopyOptions_FromFirst(rest, from,
                                                 Some(SubSeq(opt, 9, Len(opt))), chmod)
                      ELSE IF StartsWith(opt, <<"-", "-", "c", "h", "m", "o", "d", "=">>)
                      THEN CopyOptions_FromFirst(rest, from, chown,
                                                 Some(SubSeq(opt, 9, Len(opt))))
                      ELSE [ok |-> FALSE,
                            err |-> InvalidInstruction(<<"Unknown option", opt>>)]

\* parse_copy, the option loop: [ok, from, chown, chmod, rest] or [ok, err]
RECURSIVE CopyOptions(_, _, _, _)
CopyOptions(copy_args, from, chown, chmod) ==
    IF ~StartsWith(copy_args, <<"-", "-">>)
    THEN [ok |-> TRUE, from |-> from, chown |-> chown, chmod |-> chmod, rest |-> copy_args]
    ELSE LET parts == SplitN2(copy_args, " ")
         IN  IF Len(parts) < 2
             THEN [ok |-> FALSE, err |-> InvalidInstruction(<<"Invalid COPY instruction">>)]
             ELSE LET opt == Trim(parts[1])
                      rest == Trim(parts[2])
                  IN  IF StartsWith(opt, <<"-", "-", "f", "r", "o", "m", "=">>)
                      THEN CopyOptions(rest, Some(SubSeq(opt, 8, Len(opt))), chown, chmod)
                      ELSE IF StartsWith(opt, <<"-", "-", "c", "h", "o", "w", "n", "=">>)
                      THEN CopyOptions(rest, from, Some(SubSeq(opt, 9, Len(opt))), chmod)
                      ELSE IF StartsWith(opt, <<"-", "-", "c", "h", "m", "o", "d", "=">>)
                      THEN CopyOptions(rest, from, chown, Some(SubSeq(opt, 9, Len(opt))))
                      ELSE [ok |-> FALSE,
                            err |-> InvalidInstruction(<<"Unknown option", opt>>)]

\* parse_copy
ParseCopy(st, cur, args) ==
    LET o == CopyOptions(args, None, None, None)
    IN  IF ~o.ok THEN Fail(st, cur, o.err)
        ELSE LET parts == RSplitN2(o.rest, " ")
             IN  IF Len(parts) < 2
                 THEN Fail(st, cur, InvalidInstruction(<<"Invalid COPY instruction">>))
                 ELSE Push(st, cur, [kind |-> "Copy",
                                     sources |-> SplitWhitespace(parts[2]),
                                     destination |-> Trim(parts[1]),
                                     from |-> o.from, chown |-> o.chown, chmod |-> o.chmod])

\* parse_workdir that asks for a path
ParseWorkdir_NeedsPath(st, cur, args) ==
    IF args = <<>>
    THEN Fail(st, cur, [kind |-> "MissingArgument", keyword |-> <<"W", "O", "R", "K", "D", "I", "R">>])
    ELSE Push(st, cur, [kind |-> "Workdir", path |-> args])

\* parse_workdir
ParseWorkdir(st, cur, args) == Push(st, cur, [kind |-> "Workdir", path |-> args])

\* HashMap::new and HashMap::insert: a map is a function from keys to values
EmptyMap == [k \in {} |-> <<>>]

Insert(map, key, value) ==
    [k \in DOMAIN map \cup {key} |-> IF k = key THEN value ELSE map[k]]

\* U+00E9, the one character of the model that takes two bytes in UTF-8
TwoByteChar == "<C3A9>"

\* the UTF-8 width of a character
Width(c) == IF c = TwoByteChar THEN 2 ELSE 1

\* s.len(): the length of s in bytes
RECURSIVE ByteLen(_)
ByteLen(s) == IF s = <<>> THEN 0 ELSE Width(Head(s)) + ByteLen(Tail(s))

\* the scan of a quoted value: pos is compared with the byte length and used as
\* a character position by chars().nth(pos).  The result is where the scan stops
\* (the byte length or more when no unescaped closing quote is found), or -2
\* when nth(pos) is None and its unwrap panics
RECURSIVE QuoteScan(_, _, _)
QuoteScan(remaining, pos, escaped) ==
    IF pos >= ByteLen(remaining) THEN pos
    ELSE IF pos >= Len(remaining) THEN -2
    ELSE LET c == remaining[pos + 1]
         IN  IF escaped THEN QuoteScan(remaining, pos + 1, FALSE)
             ELSE IF c = "\\" THEN QuoteScan(remaining, pos + 1, TRUE)
             ELSE IF c = "\"" THEN pos
             ELSE QuoteScan(remaining, pos + 1, FALSE)

\* the number of characters before byte offset b of s, -2 when b is not on a
\* character boundary (slicing there panics)
CharsBefore(s, b) ==
    IF \E k \in 0..Len(s) : ByteLen(SubSeq(s, 1, k)) = b
    THEN CHOOSE k \in 0..Len(s) : ByteLen(SubSeq(s, 1, k)) = b
    ELSE -2

\* the end of the value at the head of remaining, in characters: -1 for an
\* unterminated quote, -2 for a panic
ValueEnd(remaining) ==
    IF StartsWith(remaining, <<"\"">>)
    THEN LET pos == QuoteScan(remaining, 1, FALSE)
         IN  IF pos = -2 THEN -2
             ELSE IF pos >= ByteLen(remaining) THEN -1
             ELSE CharsBefore(remaining, pos + 1)
    ELSE IF FindChar(remaining, " ") = 0 THEN Len(remaining)
         ELSE FindChar(remaining, " ") - 1

\* value[1..value.len() - 1] is out of range for the one-character value "\""
UnquotePanics(value) == value = <<"\"">>

\* the value with its surrounding quotes removed
Unquote(value) ==
    IF StartsWith(value, <<"\"">>) /\ EndsWith(value, <<"\"">>)
    THEN SubSeq(value, 2, Len(value) - 1)
    ELSE value

\* parse_env, the KEY=value loop: [tag, variables] or [tag, err]
RECURSIVE EnvPairs(_, _)
EnvPairs(remaining, variables) ==
    IF remaining = <<>> THEN [tag |-> "ok", variables |-> variables]
    ELSE LET key_end == FindChar(remaining, "=")
         IN  IF key_end = 0
             THEN [tag |-> "err", err |-> InvalidInstruction(<<"Invalid ENV format">>)]
             ELSE LET key == Trim(SubSeq(remaining, 1, key_end - 1))
                      rem1 == SubSeq(remaining, key_end + 1, Len(remaining))
                      value_end == ValueEnd(rem1)
                  IN  IF value_end = -2 THEN [tag |-> "panic"]
                      ELSE IF value_end = -1
                      THEN [tag |-> "err",
                            err |-> InvalidInstruction(<<"Unterminated quote in ENV">>)]
                      ELSE LET value == Trim(SubSeq(rem1, 1, value_end))
                               vars1 == Insert(variables, key, Unquote(value))
                           IN  IF UnquotePanics(value) THEN [tag |-> "panic"]
                               ELSE IF value_end < Len(rem1)
                               THEN EnvPairs(TrimStart(SubSeq(rem1, value_end + 1, Len(rem1))),
                                             vars1)
                               ELSE [tag |-> "ok", variables |-> vars1]

\* parse_env
ParseEnv(st, cur, args) ==
    IF FindChar(args, "=") # 0
    THEN LET r == EnvPairs(args, EmptyMap)
         IN  CASE r.tag = "ok" -> Push(st, cur, [kind |-> "Env", variables |-> r.variables])
               [] r.tag = "err" -> Fail(st, cur, r.err)
               [] OTHER -> Panic(st, cur)
    ELSE LET parts == SplitN2(args, " ")
         IN  Push(st, cur, [kind |-> "Env",
                            variables |-> IF Len(parts) = 2
                                          THEN Insert(EmptyMap, parts[1], parts[2])
                                          ELSE EmptyMap])

\* parse_expose, the loop over the tokens: [ok, ports, protocol] or [ok, err]
RECURSIVE ExposeTokens(_, _, _)
ExposeTokens(tokens, ports, protocol) ==
    IF tokens = <<>> THEN [ok |-> TRUE, ports |-> ports, protocol |-> protocol]
    ELSE LET port_str == Head(tokens)
             proto_idx == FindChar(port_str, "/")
         IN  IF proto_idx # 0
             THEN LET port_part == SubSeq(port_str, 1, proto_idx - 1)
                      proto_part == SubSeq(port_str, proto_idx + 1, Len(port_str))
                      port == ParseU16(port_part)
                  IN  IF ~port.ok
                      THEN [ok |-> FALSE,
                            err |-> InvalidInstruction(<<"Invalid port", port_part>>)]
                      ELSE IF protocol = None
                      THEN ExposeTokens(Tail(tokens), Append(ports, port.val),
                                        Some(proto_part))
                      ELSE IF protocol[1] # proto_part
                      THEN [ok |-> FALSE,
                            err |-> InvalidInstruction(<<"Mixed protocols in EXPOSE">>)]
                      ELSE ExposeTokens(Tail(tokens), Append(ports, port.val), protocol)
             ELSE LET port == ParseU16(port_str)
                  IN  IF ~port.ok
                      THEN [ok |-> FALSE,
                            err |-> InvalidInstruction(<<"Invalid port", port_str>>)]
                      ELSE ExposeTokens(Tail(tokens), Append(ports, port.val), protocol)

\* parse_expose
ParseExpose(st, cur, args) ==
    LET r == ExposeTokens(SplitWhitespace(args), <<>>, None)
    IN  IF r.ok
        THEN Push(st, cur, [kind |-> "Expose", ports |-> r.ports, protocol |-> r.protocol])
        ELSE Fail(st, cur, r.err)

\* args.starts_with('[') && args.ends_with(']')
IsJsonForm(args) == StartsWith(args, <<"[">>) /\ EndsWith(args, <<"]">>)

\* parse_volume with the shell form kept whole, as parse_cmd keeps it
ParseVolume_Whole(st, cur, args) ==
    IF IsJsonForm(args)
    THEN IF JsonFromStr(args).ok
         THEN Push(st, cur, [kind |-> "Volume", paths |-> JsonFromStr(args).val])
         ELSE Fail(st, cur, JsonError)
    ELSE Push(st, cur, [kind |-> "Volume", paths |-> <<args>>])

\* parse_volume that records the instruction before it decodes the paths
ParseVolume_AppendFirst(st, cur, args) ==
    IF IsJsonForm(args)
    THEN IF JsonFromStr(args).ok
         THEN Push(st, cur, [kind |-> "Volume", paths |-> JsonFromStr(args).val])
         ELSE Fail(Push(st, cur, [kind |-> "Volume", paths |-> <<>>]).stages, cur, JsonError)
    ELSE Push(st, cur, [kind |-> "Volume", paths |-> SplitWhitespace(args)])

\* parse_volume
ParseVolume(st, cur, args) ==
    IF IsJsonForm(args)
    THEN IF JsonFromStr(args).ok
         THEN Push(st, cur, [kind |-> "Volume", paths |-> JsonFromStr(args).val])
         ELSE Fail(st, cur, JsonError)
    ELSE Push(st, cur, [kind |-> "Volume", paths |-> SplitWhitespace(args)])

\* parse_cmd with the shell form split into words
ParseCmd_SplitWords(st, cur, args) ==
    IF IsJsonForm(args)
    THEN IF JsonFromStr(args).ok
         THEN Push(st, cur, [kind |-> "Cmd", command |-> JsonFromStr(args).val])
         ELSE Fail(st, cur, JsonError)
    ELSE Push(st, cur, [kind |-> "Cmd", command |-> SplitWhitespace(args)])

\* parse_cmd
ParseCmd(st, cur, args) ==
    IF IsJsonForm(args)
    THEN IF JsonFromStr(args).ok
         THEN Push(st, cur, [kind |-> "Cmd", command |-> JsonFromStr(args).val])
         ELSE Fail(st, cur, JsonError)
    ELSE Push(st, cur, [kind |-> "Cmd", command |-> <<args>>])

\* parse_entrypoint
ParseEntrypoint(st, cur, args) ==
    IF IsJsonForm(args)
    THEN IF JsonFromStr(args).ok
         THEN Push(st, cur, [kind |-> "Entrypoint", command |-> JsonFromStr(args).val])
         ELSE Fail(st, cur, JsonError)
    ELSE Push(st, cur, [kind |-> "Entrypoint", command |-> <<args>>])

\* parse_label, the loop over the keys: [tag, labels] or [tag, err]
RECURSIVE LabelPairs(_, _)
LabelPairs(remaining, labels) ==
    IF remaining = <<>> THEN [tag |-> "ok", labels |-> labels]
    ELSE LET key_end == IF FindChar(remaining, "=") = 0 THEN Len(remaining)
                        ELSE FindChar(remaining, "=") - 1
             space_pos == IF FindChar(remaining, " ") = 0 THEN Len(remaining)
                          ELSE FindChar(remaining, " ") - 1
         IN  IF space_pos < key_end
             THEN LET key == Trim(SubSeq(remaining, 1, space_pos))
                      rem1 == TrimStart(SubSeq(remaining, space_pos + 1, Len(remaining)))
                      value_end == IF FindChar(rem1, " ") = 0 THEN Len(rem1)
                                   ELSE FindChar(rem1, " ") - 1
                      value == Trim(SubSeq(rem1, 1, value_end))
                      labels1 == Insert(labels, key, value)
                  IN  IF value_end < Len(rem1)
                      THEN LabelPairs(TrimStart(SubSeq(rem1, value_end + 1, Len(rem1))),
                                      labels1)
                      ELSE [tag |-> "ok", labels |-> labels1]
             ELSE IF key_end + 1 > Len(remaining)
             \* &remaining[key_end + 1..] starts past the end
             THEN [tag |-> "panic"]
             ELSE LET key == Trim(SubSeq(remaining, 1, key_end))
                      rem1 == SubSeq(remaining, key_end + 2, Len(remaining))
                      value_end == ValueEnd(rem1)
                  IN  IF value_end = -2 THEN [tag |-> "panic"]
                      ELSE IF value_end = -1
                      THEN [tag |-> "err",
                            err |-> InvalidInstruction(<<"Unterminated quote in LABEL">>)]
                      ELSE LET value == Trim(SubSeq(rem1, 1, value_end))
                               labels1 == Insert(labels, key, Unquote(value))
                           IN  IF UnquotePanics(value) THEN [tag |-> "panic"]
                               ELSE IF value_end < Len(rem1)
                               THEN LabelPairs(TrimStart(SubSeq(rem1, value_end + 1, Len(rem1))),
                                               labels1)
                               ELSE [tag |-> "ok", labels |-> labels1]

\* parse_label
ParseLabel(st, cur, args) ==
    LET r == LabelPairs(args, EmptyMap)
    IN  CASE r.tag = "ok" -> Push(st, cur, [kind |-> "Label", labels |-> r.labels])
          [] r.tag = "err" -> Fail(st, cur, r.err)
          [] OTHER -> Panic(st, cur)

\* parse_user
ParseUser(st, cur, args) ==
    LET colon_pos == FindChar(args, ":")
    IN  IF colon_pos # 0
        THEN Push(st, cur, [kind |-> "User", user |-> SubSeq(args, 1, colon_pos - 1),
                            group |-> Some(SubSeq(args, colon_pos + 1, Len(args)))])
        ELSE Push(st, cur, [kind |-> "User", user |-> args, group |-> None])

\* parse_arg
ParseArg(st, cur, args) ==
    LET equals_pos == FindChar(args, "=")
    IN  IF equals_pos # 0
        THEN Push(st, cur, [kind |-> "Arg", name |-> SubSeq(args, 1, equals_pos - 1),
                            default_value |-> Some(SubSeq(args, equals_pos + 1, Len(args)))])
        ELSE Push(st, cur, [kind |-> "Arg", name |-> args, default_value |-> None])

----------------------------------------------------------------------------
(* parse_content: the line filter, the continuation loop and the dispatch. *)

\* the filter with the comment test made on the untrimmed line
RetainedLines_CommentBeforeTrim(content) ==
    LET kept == SelectSeq(SplitLines(content),
                          LAMBDA line : Trim(line) # <<>> /\ ~StartsWith(line, <<"#">>))
    IN  [k \in 1..Len(kept) |-> Trim(kept[k])]

\* content.lines().map(trim).filter(non-empty and not a comment).collect()
RetainedLines(content) ==
    SelectSeq([k \in 1..Len(SplitLines(content)) |-> Trim(SplitLines(content)[k])],
              LAMBDA line : line # <<>> /\ ~StartsWith(line, <<"#">>))

\* the continuation loop without full_args.pop(): the backslash is kept
RECURSIVE Continuation_KeepBackslash(_, _, _)
Continuation_KeepBackslash(ls, full_args, k) ==
    IF EndsWith(full_args, <<"\\">>) /\ k + 1 < Len(ls)
    THEN <<full_args \o Trim(ls[k + 2]), k + 1>>
    ELSE <<full_args, k>>

\* the continuation loop: <<full_args, i>> once no merge is left to do
RECURSIVE Continuation(_, _, _)
Continuation(ls, full_args, k) ==
    IF EndsWith(full_args, <<"\\">>) /\ k + 1 < Len(ls)
    THEN Continuation(ls, SubSeq(full_args, 1, Len(full_args) - 1) \o Trim(ls[k + 2]), k + 1)
    ELSE <<full_args, k>>

\* the match on the keyword as written, without to_uppercase
Dispatch_CaseSensitive(instruction, st, cur, full_args) ==
    CASE instruction = <<"F", "R", "O", "M">>       -> ParseFrom(st, cur, full_args)
      [] instruction = <<"R", "U", "N">>        -> ParseRun(st, cur, full_args)
      [] instruction = <<"C", "O", "P", "Y">>       -> ParseCopy(st, cur, full_args)
      [] instruction = <<"W", "O", "R", "K", "D", "I", "R">>    -> ParseWorkdir(st, cur, full_args)
      [] instruction = <<"E", "N", "V">>        -> ParseEnv(st, cur, full_args)
      [] instruction = <<"E", "X", "P", "O", "S", "E">>     -> ParseExpose(st, cur, full_args)
      [] instruction = <<"V", "O", "L", "U", "M", "E">>     -> ParseVolume(st, cur, full_args)
      [] instruction = <<"C", "M", "D">>        -> ParseCmd(st, cur, full_args)
      [] instruction = <<"E", "N", "T", "R", "Y", "P", "O", "I", "N", "T">> -> ParseEntrypoint(st, cur, full_args)
      [] instruction = <<"L", "A", "B", "E", "L">>      -> ParseLabel(st, cur, full_args)
      [] instruction = <<"U", "S", "E", "R">>       -> ParseUser(st, cur, full_args)
      [] instruction = <<"A", "R", "G">>        -> ParseArg(st, cur, full_args)
      [] OTHER                       -> Fail(st, cur, UnknownInstruction(instruction))

\* the match on instruction.to_uppercase()
Dispatch(instruction, st, cur, full_args) ==
    LET keyword == ToUppercase(instruction)
    IN  CASE keyword = <<"F", "R", "O", "M">>       -> ParseFrom(st, cur, full_args)
          [] keyword = <<"R", "U", "N">>        -> ParseRun(st, cur, full_args)
          [] keyword = <<"C", "O", "P", "Y">>       -> ParseCopy(st, cur, full_args)
          [] keyword = <<"W", "O", "R", "K", "D", "I", "R">>    -> ParseWorkdir(st, cur, full_args)
          [] keyword = <<"E", "N", "V">>        -> ParseEnv(st, cur, full_args)
          [] keyword = <<"E", "X", "P", "O", "S", "E">>     -> ParseExpose(st, cur, full_args)
          [] keyword = <<"V", "O", "L", "U", "M", "E">>     -> ParseVolume(st, cur, full_args)
          [] keyword = <<"C", "M", "D">>        -> ParseCmd(st, cur, full_args)
          [] keyword = <<"E", "N", "T", "R", "Y", "P", "O", "I", "N", "T">> -> ParseEntrypoint(st, cur, full_args)
          [] keyword = <<"L", "A", "B", "E", "L">>      -> ParseLabel(st, cur, full_args)
          [] keyword = <<"U", "S", "E", "R">>       -> ParseUser(st, cur, full_args)
          [] keyword = <<"A", "R", "G">>        -> ParseArg(st, cur, full_args)
          [] OTHER                   -> Fail(st, cur, UnknownInstruction(instruction))

NoResult == [tag |-> "none"]

\* RockerfileParser::new
Init ==
    /\ stages = <<StageNew(None)>>
    /\ current_stage = 0
    /\ call_content = <<>>
    /\ lines = <<>>
    /\ i = 0
    /\ pc = "idle"
    /\ result = NoResult
    /\ calls = 0
    /\ used = 0
    /\ dispatched = <<>>

\* parse_content is entered with content: the retained lines are collected
ParseContent(content) ==
    /\ pc \in {"idle", "returned"}
    /\ call_content' = content
    /\ lines' = RetainedLines(content)
    /\ i' = 0
    /\ pc' = "loop"
    /\ result' = NoResult
    /\ calls' = calls + 1
    /\ used' = used + Len(SplitLines(content))
    /\ dispatched' = <<>>
    /\ UNCHANGED <<stages, current_stage>>

\* the loop body with the '?' left out: a failed line is skipped
DispatchLine_KeepGoing ==
    /\ pc = "loop"
    /\ i < Len(lines)
    /\ LET line == lines[i + 1]
           parts == SplitN2(line, " ")
           instruction == parts[1]
           args == IF Len(parts) = 2 THEN parts[2] ELSE <<>>
           merged == Continuation(lines, args, i)
           full_args == merged[1]
           out == Dispatch(instruction, stages, current_stage, full_args)
       IN  /\ stages' = out.stages
           /\ current_stage' = out.current_stage
           /\ dispatched' = Append(dispatched, [instruction |-> instruction,
                                                 full_args |-> full_args,
                                                 first |-> i,
                                                 last |-> merged[2],
                                                 out |-> out])
           /\ i' = merged[2] + 1
           /\ pc' = "loop"
           /\ result' = result
    /\ UNCHANGED <<call_content, lines, calls, used>>

\* one turn of the while loop: a logical line is assembled and dispatched
DispatchLine ==
    /\ pc = "loop"
    /\ i < Len(lines)
    /\ LET line == lines[i + 1]
           parts == SplitN2(line, " ")
           instruction == parts[1]
           args == IF Len(parts) = 2 THEN parts[2] ELSE <<>>
           merged == Continuation(lines, args, i)
           full_args == merged[1]
           out == Dispatch(instruction, stages, current_stage, full_args)
       IN  /\ stages' = out.stages
           /\ current_stage' = out.current_stage
           /\ dispatched' = Append(dispatched, [instruction |-> instruction,
                                                 full_args |-> full_args,
                                                 first |-> i,
                                                 last |-> merged[2],
                                                 out |-> out])
           /\ i' = IF out.tag = "ok" THEN merged[2] + 1 ELSE merged[2]
           /\ pc' = CASE out.tag = "ok" -> "loop"
                      [] out.tag = "err" -> "returned"
                      [] OTHER -> "panicked"
           /\ result' = IF out.tag = "err" THEN [tag |-> "Err", err |-> out.err] ELSE result
    /\ UNCHANGED <<call_content, lines, calls, used>>

\* the loop is over: Ok(&self.stages)
ReturnStages ==
    /\ pc = "loop"
    /\ i >= Len(lines)
    /\ pc' = "returned"
    /\ result' = [tag |-> "Ok", stages |-> stages]
    /\ UNCHANGED <<stages, current_stage, call_content, lines, i, calls, used, dispatched>>

\* the text of a file whose physical lines are ls
RECURSIVE JoinLines(_)
JoinLines(ls) == IF ls = <<>> THEN <<>> ELSE Head(ls) \o <<"\n">> \o JoinLines(Tail(ls))

\* the physical lines the input files of Spec are made of
LinePool ==
    { <<"F", "R", "O", "M", " ", "a", " ", "A", "S", " ", "b">>,
      <<"F", "R", "O", "M", " ", "c">>,
      <<"R", "U", "N", " ", "x", " ", "\\">>,
      <<" ", " ", "r", "u", "n", " ", "y">>,
      <<"C", "O", "P", "Y", " ", "-", "-", "f", "r", "o", "m", "=", "b", " ", "x", " ", "y">>,
      <<"C", "O", "P", "Y", " ", "-", "-", "f", "r", "o", "m", "=", "x", " ", "-", "-", "c", "h", "o", "w", "n", "=", "u", " ", "y", " ", "z">>,
      <<"E", "X", "P", "O", "S", "E", " ", "x">>,
      <<"A", "D", "D", " ", "x", " ", "y">>,
      <<"#", " ", "c">>,
      <<>> }

\* the files of at most n physical lines over a pool
Files(pool, n) == UNION { { JoinLines(ls) : ls \in [1..k -> pool] } : k \in 0..n }

Next ==
    \/ /\ calls < MaxCalls
       /\ \E content \in Files(LinePool, MaxLines - used) : ParseContent(content)
    \/ DispatchLine
    \/ ReturnStages

Spec == Init /\ [][Next]_vars

----------------------------------------------------------------------------
(* Properties of a parse by a fresh parser.                                *)

\* the log entry d is a FROM line
IsFromLine(d) == ToUppercase(d.instruction) = <<"F", "R", "O", "M">>

\* the FROM lines dispatched by the current call, in source order
Froms == SelectSeq(dispatched, IsFromLine)

\* the first call on a fresh parser has returned a stage sequence
FreshOk == calls = 1 /\ pc = "returned" /\ result.tag = "Ok"

\* the image and the alias written on a FROM line
ImageOf(args) ==
    IF FindStr(args, <<" ", "A", "S", " ">>) = 0 THEN Trim(args)
    ELSE Trim(SubSeq(args, 1, FindStr(args, <<" ", "A", "S", " ">>) - 1))

AliasOf(args) ==
    IF FindStr(args, <<" ", "A", "S", " ">>) = 0 THEN None
    ELSE Some(Trim(SubSeq(args, FindStr(args, <<" ", "A", "S", " ">>) + 4, Len(args))))

\* stage s of the returned sequence is the one opened by FROM line f
OpenedBy(s, f) ==
    /\ s.instructions # <<>>
    /\ s.instructions[1].kind = "From"
    /\ s.instructions[1].image = ImageOf(f.full_args)
    /\ s.base_image = Some(ImageOf(f.full_args))

\* C1 as stated: an accepted input with N >= 1 FROM instructions, wherever they
\* stand, yields exactly N stages, the k-th opened by the k-th FROM line.
C1_Original ==
    (FreshOk /\ Len(Froms) >= 1) =>
        /\ Len(result.stages) = Len(Froms)
        /\ \A k \in 1..Len(Froms) : OpenedBy(result.stages[k], Froms[k])

\* C1 amended: with N >= 1 FROM instructions the result has exactly N stages when
\* the first instruction is a FROM, and N + 1 stages when it is not (stage 0 then
\* holds the leading instructions and no From); the k-th FROM line opens the k-th
\* of the stages that begin with a From.
C1_StageCount ==
    (FreshOk /\ Len(Froms) >= 1) =>
        LET lead == IF IsFromLine(dispatched[1]) THEN 0 ELSE 1
        IN  /\ Len(result.stages) = Len(Froms) + lead
            /\ \A k \in 1..Len(Froms) : OpenedBy(result.stages[k + lead], Froms[k])
            /\ lead = 1 =>
                   /\ result.stages[1].instructions # <<>>
                   /\ \A n \in 1..Len(result.stages[1].instructions) :
                          result.stages[1].instructions[n].kind # "From"

\* C1 witness: two FROM lines after a leading non-FROM instruction, all accepted
C1_Witness ==
    /\ FreshOk
    /\ Len(Froms) = 2
    /\ ~IsFromLine(dispatched[1])
    /\ Len(result.stages) = 3

\* C2 as stated: every returned stage with instructions has a From at
\* instructions[0], and its base_image is that From's image.
C2_Original ==
    (pc = "returned" /\ result.tag = "Ok") =>
        \A k \in 1..Len(result.stages) :
            result.stages[k].instructions # <<>> =>
                /\ result.stages[k].instructions[1].kind = "From"
                /\ result.stages[k].base_image = Some(result.stages[k].instructions[1].image)

\* C2 amended: every returned stage after the first has a From at instructions[0];
\* every stage whose instructions[0] is a From has that From's image as its
\* base_image; the first stage begins with another instruction exactly when the
\* first instruction the parser processed was not a FROM, and then its base_image
\* is absent.
C2_FromFirst ==
    (pc = "returned" /\ result.tag = "Ok") =>
        /\ \A k \in 2..Len(result.stages) :
               /\ result.stages[k].instructions # <<>>
               /\ result.stages[k].instructions[1].kind = "From"
        /\ \A k \in 1..Len(result.stages) :
               LET s == result.stages[k]
               IN  s.instructions # <<>> =>
                       IF s.instructions[1].kind = "From"
                       THEN s.base_image = Some(s.instructions[1].image)
                       ELSE k = 1 /\ s.base_image = None
        /\ (calls = 1 /\ dispatched # <<>>) =>
               (result.stages[1].instructions[1].kind = "From" <=> IsFromLine(dispatched[1]))

\* C2 witness: a returned sequence whose first stage begins with a Run and whose
\* second stage begins with its From
C2_Witness ==
    /\ pc = "returned" /\ result.tag = "Ok"
    /\ Len(result.stages) = 2
    /\ result.stages[1].instructions[1].kind = "Run"
    /\ result.stages[1].base_image = None
    /\ result.stages[2].instructions[1].kind = "From"
    /\ result.stages[2].base_image = Some(<<"c">>)

\* C3 as stated: a stage that begins with a From has that From's as_name as its
\* name, the trimmed alias when the FROM line has one and absent otherwise.
C3_NameIsAsName ==
    (pc = "returned" /\ result.tag = "Ok") =>
        \A k \in 1..Len(result.stages) :
            LET s == result.stages[k]
            IN  (s.instructions # <<>> /\ s.instructions[1].kind = "From") =>
                    s.name = s.instructions[1].as_name

\* the position in dispatched of the k-th FROM line
RECURSIVE FromPosition(_, _)
FromPosition(k, n) ==
    IF IsFromLine(dispatched[n])
    THEN IF k = 1 THEN n ELSE FromPosition(k - 1, n + 1)
    ELSE FromPosition(k, n + 1)

\* the number of FROM lines among the first n dispatched lines
FromsUpTo(n) == Len(SelectSeq(SubSeq(dispatched, 1, n), IsFromLine))

\* the value V of a COPY remainder that begins with --from=V and a space
CopyFromValue(args) == SubSeq(args, 8, FindChar(args, " ") - 1)

\* the names of the stages opened before dispatched line n
EarlierNames(n) == { AliasOf(Froms[k].full_args) : k \in 1..(FromsUpTo(n) - 1) }

\* C4: when the first instruction is a FROM, stage k is named by the trimmed alias
\* of the k-th FROM line (absent without one), and an accepted COPY --from=V is
\* recorded at its place in its stage with from = Some(V), whatever V is.
C4_MultiStage ==
    (FreshOk /\ dispatched # <<>> /\ IsFromLine(dispatched[1])) =>
        /\ \A k \in 1..Len(Froms) : result.stages[k].name = AliasOf(Froms[k].full_args)
        /\ \A n \in 1..Len(dispatched) :
               (/\ ToUppercase(dispatched[n].instruction) = <<"C", "O", "P", "Y">>
                /\ StartsWith(dispatched[n].full_args, <<"-", "-", "f", "r", "o", "m", "=">>)
                /\ FindChar(dispatched[n].full_args, " ") # 0) =>
                   LET k == FromsUpTo(n)
                       at == n - FromPosition(k, 1) + 1
                       s == result.stages[k]
                   IN  /\ Len(s.instructions) >= at
                       /\ s.instructions[at].kind = "Copy"
                       /\ s.instructions[at].from = Some(CopyFromValue(dispatched[n].full_args))

\* C4 witness: a named first stage, an unnamed second one, and in it a COPY whose
\* --from names no earlier stage
C4_Witness ==
    /\ FreshOk
    /\ Len(Froms) = 2
    /\ result.stages[1].name = Some(<<"b">>)
    /\ result.stages[2].name = None
    /\ \E n \in 1..Len(dispatched) :
           /\ ToUppercase(dispatched[n].instruction) = <<"C", "O", "P", "Y">>
           /\ FromsUpTo(n) = 2
           /\ result.stages[2].instructions[2].kind = "Copy"
           /\ result.stages[2].instructions[2].from = Some(<<"x">>)
           /\ Some(<<"x">>) \notin EarlierNames(n)

\* C5: only the last dispatched line of a call can have failed; when it has, the
\* call has returned its error and nothing else, with later lines left
\* undispatched; a call that returns stages has dispatched every line with success.
C5_FailFast ==
    /\ \A n \in 1..(Len(dispatched) - 1) : dispatched[n].out.tag = "ok"
    /\ (dispatched # <<>> /\ dispatched[Len(dispatched)].out.tag = "err") =>
           /\ pc = "returned"
           /\ result = [tag |-> "Err", err |-> dispatched[Len(dispatched)].out.err]
    /\ (pc = "returned" /\ result.tag = "Err") =>
           /\ DOMAIN result = {"tag", "err"}
           /\ dispatched # <<>>
           /\ dispatched[Len(dispatched)].out.tag = "err"
    /\ (pc = "returned" /\ result.tag = "Ok") =>
           /\ \A n \in 1..Len(dispatched) : dispatched[n].out.tag = "ok"
           /\ i = Len(lines)

\* C5 witness: a call that returned the error of its first line although two more
\* retained lines followed it
C5_Witness ==
    /\ pc = "returned"
    /\ result.tag = "Err"
    /\ Len(dispatched) = 1
    /\ Len(lines) = 3
    /\ i = 0

----------------------------------------------------------------------------
(* One-line inputs for the dispatcher and the per-instruction grammars.    *)

\* tokens a remainder is built from in SpecForms
MaxTokens == 3
\* port tokens of an EXPOSE remainder in SpecExpose
MaxPorts == 2
\* source paths of a COPY remainder in SpecCopy
MaxSources == 2

\* the concatenation of the texts of ts, sep between them
RECURSIVE JoinWith(_, _)
JoinWith(ts, sep) ==
    IF ts = <<>> THEN <<>>
    ELSE IF Len(ts) = 1 THEN ts[1]
    ELSE ts[1] \o sep \o JoinWith(Tail(ts), sep)

\* the sequences of at most n elements of S
SeqsUpTo(S, n) == UNION { [1..k -> S] : k \in 0..n }

\* parse_content on the one-line file "keyword remainder"
ParseLine(keyword, remainder) == ParseContent(JoinLines(<<keyword \o <<" ">> \o remainder>>))

LowerChar(c) ==
    IF \E k \in 1..Len(UpperLetters) : UpperLetters[k] = c
    THEN LowerLetters[CHOOSE k \in 1..Len(UpperLetters) : UpperLetters[k] = c]
    ELSE c

\* every way of writing w in upper-case and lower-case letters
RECURSIVE CaseVariants(_)
CaseVariants(w) ==
    IF w = <<>> THEN {<<>>}
    ELSE { <<c>> \o v : c \in {LowerChar(Head(w)), UpperChar(Head(w))},
                        v \in CaseVariants(Tail(w)) }

WiredKeywords ==
    { <<"F", "R", "O", "M">>, <<"R", "U", "N">>, <<"C", "O", "P", "Y">>, <<"W", "O", "R", "K", "D", "I", "R">>, <<"E", "N", "V">>, <<"E", "X", "P", "O", "S", "E">>, <<"V", "O", "L", "U", "M", "E">>, <<"C", "M", "D">>,
      <<"E", "N", "T", "R", "Y", "P", "O", "I", "N", "T">>, <<"L", "A", "B", "E", "L">>, <<"U", "S", "E", "R">>, <<"A", "R", "G">> }

UnwiredKeywords ==
    { <<"A", "D", "D">>, <<"H", "E", "A", "L", "T", "H", "C", "H", "E", "C", "K">>, <<"S", "H", "E", "L", "L">>, <<"S", "T", "O", "P", "S", "I", "G", "N", "A", "L">>, <<"O", "N", "B", "U", "I", "L", "D">>, <<"F", "O", "O", "B", "A", "R">>,
      <<"F", "R", "O">>, <<"F", "R", "O", "M", "M">>, <<"R", "U", "N", ":">> }

DispatchKeywords == UNION { CaseVariants(w) : w \in WiredKeywords \cup UnwiredKeywords }

DispatchRemainders == { <<>>, <<"a", " ", "b">>, <<"k", "=", "v">>, <<"8", "0">>, <<"x", "y", "z">> }

NextDispatch ==
    \/ /\ calls = 0
       /\ \E keyword \in DispatchKeywords, remainder \in DispatchRemainders :
              ParseLine(keyword, remainder)
    \/ DispatchLine
    \/ ReturnStages

\* one-line files with every spelling of the keywords
SpecDispatch == Init /\ [][NextDispatch]_vars

\* the Instruction variant each wired keyword produces
KindOf(keyword) ==
    CASE keyword = <<"F", "R", "O", "M">>       -> "From"
      [] keyword = <<"R", "U", "N">>        -> "Run"
      [] keyword = <<"C", "O", "P", "Y">>       -> "Copy"
      [] keyword = <<"W", "O", "R", "K", "D", "I", "R">>    -> "Workdir"
      [] keyword = <<"E", "N", "V">>        -> "Env"
      [] keyword = <<"E", "X", "P", "O", "S", "E">>     -> "Expose"
      [] keyword = <<"V", "O", "L", "U", "M", "E">>     -> "Volume"
      [] keyword = <<"C", "M", "D">>        -> "Cmd"
      [] keyword = <<"E", "N", "T", "R", "Y", "P", "O", "I", "N", "T">> -> "Entrypoint"
      [] keyword = <<"L", "A", "B", "E", "L">>      -> "Label"
      [] keyword = <<"U", "S", "E", "R">>       -> "User"
      [] keyword = <<"A", "R", "G">>        -> "Arg"

\* the accumulator of a fresh parser
FreshStages == <<StageNew(None)>>

\* the first line dispatched by the first call on a fresh parser
FirstLine == calls = 1 /\ dispatched # <<>>

\* the instruction that the first line appended to the bootstrap stage
FirstInstruction == dispatched[1].out.stages[1].instructions[1]

\* C6: a line whose keyword is any spelling of a wired keyword is parsed exactly as
\* the same line with the upper-case keyword, into that keyword's variant; every
\* other keyword fails with UnknownInstruction carrying the keyword as written,
\* and appends nothing.
C6_Dispatch ==
    FirstLine =>
        LET d == dispatched[1]
            keyword == ToUppercase(d.instruction)
        IN  IF keyword \in WiredKeywords
            THEN /\ d.out = Dispatch(keyword, FreshStages, 0, d.full_args)
                 /\ d.out.tag = "err" => d.out.err.kind # "UnknownInstruction"
                 /\ d.out.tag = "ok" =>
                        /\ Len(d.out.stages[1].instructions) = 1
                        /\ FirstInstruction.kind = KindOf(keyword)
            ELSE /\ d.out.tag = "err"
                 /\ d.out.err = UnknownInstruction(d.instruction)
                 /\ d.out.stages = FreshStages

\* C6 witness: a mixed-case ENTRYPOINT line has been parsed into an Entrypoint
C6_Witness ==
    /\ FirstLine
    /\ dispatched[1].instruction = <<"e", "N", "t", "R", "y", "P", "o", "I", "n", "T">>
    /\ dispatched[1].out.tag = "ok"
    /\ FirstInstruction = [kind |-> "Entrypoint", command |-> <<<<"a", " ", "b">>>>]

\* the tokens a CMD, ENTRYPOINT or VOLUME remainder is made of
FormTokens == { <<"[">>, <<"]">>, <<"\"", "a", "\"">>, <<"\"">>, <<",">>, <<" ">>, <<"a">>, <<"\\">>, <<"\t">> }

\* remainders: at most MaxTokens tokens, optionally between '[' and ']'
FormRemainders ==
    { open \o JoinWith(ts, <<>>) \o close :
          open \in {<<>>, <<"[">>}, close \in {<<>>, <<"]">>}, ts \in SeqsUpTo(FormTokens, MaxTokens) }

NextForms ==
    \/ /\ calls = 0
       /\ \E keyword \in {<<"C", "M", "D">>, <<"E", "N", "T", "R", "Y", "P", "O", "I", "N", "T">>, <<"V", "O", "L", "U", "M", "E">>}, remainder \in FormRemainders :
              ParseLine(keyword, remainder)
    \/ DispatchLine
    \/ ReturnStages

\* one-line CMD, ENTRYPOINT and VOLUME files
SpecForms == Init /\ [][NextForms]_vars

\* the first line is one of keyword, and has been dispatched
FirstLineIs(keyword) == FirstLine /\ dispatched[1].instruction = keyword

\* C7, the rule: a CMD or ENTRYPOINT remainder that starts with '[' and ends with
\* ']' is decoded as a JSON array of strings, which is the command, or fails with
\* a Json error; any other remainder, the empty one included, is the single
\* element of the command, unsplit.
C7_CmdForms ==
    \A keyword \in {<<"C", "M", "D">>, <<"E", "N", "T", "R", "Y", "P", "O", "I", "N", "T">>} :
        FirstLineIs(keyword) =>
            LET d == dispatched[1]
                args == d.full_args
            IN  IF args # <<>> /\ Head(args) = "[" /\ args[Len(args)] = "]"
                THEN IF JsonFromStr(args).ok
                     THEN /\ d.out.tag = "ok"
                          /\ FirstInstruction =
                                 [kind |-> KindOf(keyword), command |-> JsonFromStr(args).val]
                     ELSE d.out = Fail(FreshStages, 0, JsonError)
                ELSE /\ d.out.tag = "ok"
                     /\ FirstInstruction = [kind |-> KindOf(keyword), command |-> <<args>>]

\* C7, the cases of the claim: a two-element array, an array with a missing
\* comma, a shell form with a blank in it and the empty remainder
C7_Examples ==
    \A keyword \in {<<"C", "M", "D">>, <<"E", "N", "T", "R", "Y", "P", "O", "I", "N", "T">>} :
        FirstLineIs(keyword) =>
            LET d == dispatched[1]
            IN  /\ d.full_args = <<"[", "\"", "a", "\"", ",", "\"", "a", "\"", "]">> =>
                       d.out.tag = "ok" /\ FirstInstruction.command = <<<<"a">>, <<"a">>>>
                /\ d.full_args = <<"[", "\"", "a", "\"", "\"", "a", "\"", "]">> =>
                       d.out.tag = "err" /\ d.out.err.kind = "Json"
                /\ d.full_args = <<"a", " ", "a">> =>
                       d.out.tag = "ok" /\ FirstInstruction.command = <<<<"a", " ", "a">>>>
                /\ d.full_args = <<>> =>
                       d.out.tag = "ok" /\ FirstInstruction.command = <<<<>>>>

\* C7: CMD and ENTRYPOINT take the JSON form for a remainder between '[' and ']'
\* (a decode failure is a Json error) and keep every other remainder whole as the
\* one element of the command.
C7_Cmd == C7_CmdForms /\ C7_Examples

\* C7 witness: CMD a a has been parsed into the command ["a a"]
C7_Witness ==
    /\ FirstLineIs(<<"C", "M", "D">>)
    /\ dispatched[1].full_args = <<"a", " ", "a">>
    /\ FirstInstruction = [kind |-> "Cmd", command |-> <<<<"a", " ", "a">>>>]

\* the first line is a VOLUME whose remainder is not a JSON array literal
VolumeShellForm ==
    /\ FirstLineIs(<<"V", "O", "L", "U", "M", "E">>)
    /\ ~(StartsWith(dispatched[1].full_args, <<"[">>) /\ EndsWith(dispatched[1].full_args, <<"]">>))

\* C8 as stated: a VOLUME remainder that is not a JSON array literal is the single
\* element of paths.
C8_Original ==
    VolumeShellForm =>
        /\ dispatched[1].out.tag = "ok"
        /\ FirstInstruction = [kind |-> "Volume", paths |-> <<dispatched[1].full_args>>]

\* t is a non-empty text without whitespace
IsWord(t) == t # <<>> /\ \A k \in 1..Len(t) : ~IsWhitespace(t[k])

\* C8 amended: a VOLUME remainder that is not a JSON array literal is split at
\* whitespace: paths holds its whitespace-separated words in order, none of them
\* empty, and no path at all for an empty remainder.
C8_VolumeWords ==
    VolumeShellForm =>
        LET args == dispatched[1].full_args
            paths == dispatched[1].out.stages[1].instructions[1].paths
        IN  /\ dispatched[1].out.tag = "ok"
            /\ FirstInstruction.kind = "Volume"
            /\ \A k \in 1..Len(paths) : IsWord(paths[k])
            /\ JoinWith(paths, <<>>) = SelectSeq(args, LAMBDA c : ~IsWhitespace(c))
            /\ Len(paths) = Cardinality({ k \in 1..Len(args) :
                                 /\ ~IsWhitespace(args[k])
                                 /\ (k = 1 \/ IsWhitespace(args[k - 1])) })

\* C8 witness: VOLUME a a has been parsed into two paths
C8_Witness ==
    /\ VolumeShellForm
    /\ dispatched[1].full_args = <<"a", " ", "a">>
    /\ FirstInstruction.paths = <<<<"a">>, <<"a">>>>

----------------------------------------------------------------------------
(* COPY options in every order.                                            *)

CopyOptionNames == { <<"f", "r", "o", "m">>, <<"c", "h", "o", "w", "n">>, <<"c", "h", "m", "o", "d">> }

\* the orderings of the subsets of the three options
OptionOrders ==
    { o \in SeqsUpTo(CopyOptionNames, 3) :
          \A a, b \in 1..Len(o) : a # b => o[a] # o[b] }

CopyOptionValues == { <<"b">>, <<"0">>, <<"u", ":", "g">> }

CopyPaths == { <<"x">>, <<"/", "y">> }

\* the option words of ordering o, each with its value
OptionWords(o, value) == [k \in 1..Len(o) |-> <<"-", "-">> \o o[k] \o <<"=">> \o value[o[k]]]

NextCopy ==
    \/ /\ calls = 0
       /\ \E o \in OptionOrders, value \in [CopyOptionNames -> CopyOptionValues],
             paths \in SeqsUpTo(CopyPaths, MaxSources + 1), sep \in {<<" ">>, <<" ", " ">>} :
              ParseLine(<<"C", "O", "P", "Y">>, JoinWith(OptionWords(o, value) \o paths, sep))
    \/ DispatchLine
    \/ ReturnStages

\* one-line COPY files
SpecCopy == Init /\ [][NextCopy]_vars

\* the leading words of ws that begin with "--"
RECURSIVE LeadingOptions(_)
LeadingOptions(ws) ==
    IF ws # <<>> /\ StartsWith(Head(ws), <<"-", "-">>)
    THEN <<Head(ws)>> \o LeadingOptions(Tail(ws))
    ELSE <<>>

\* the value given to option name among the option words opts, whatever its place
GivenValue(opts, name) ==
    LET prefix == <<"-", "-">> \o name \o <<"=">>
    IN  IF \E k \in 1..Len(opts) : StartsWith(opts[k], prefix)
        THEN LET k == CHOOSE k \in 1..Len(opts) : StartsWith(opts[k], prefix)
             IN  Some(SubSeq(opts[k], Len(prefix) + 1, Len(opts[k])))
        ELSE None

\* C9: whatever the order of the leading options of a COPY, each option given has
\* its value in the Copy and each option not given is absent; the sources are the
\* words before the last one and the destination is the last word.  A COPY with
\* fewer than two path words fails in every order.
C9_OptionOrder ==
    FirstLineIs(<<"C", "O", "P", "Y">>) =>
        LET d == dispatched[1]
            words == SplitWhitespace(d.full_args)
            opts == LeadingOptions(words)
            paths == SubSeq(words, Len(opts) + 1, Len(words))
        IN  IF Len(paths) >= 2
            THEN /\ d.out.tag = "ok"
                 /\ FirstInstruction =
                        [kind |-> "Copy",
                         sources |-> SubSeq(paths, 1, Len(paths) - 1),
                         destination |-> paths[Len(paths)],
                         from |-> GivenValue(opts, <<"f", "r", "o", "m">>),
                         chown |-> GivenValue(opts, <<"c", "h", "o", "w", "n">>),
                         chmod |-> GivenValue(opts, <<"c", "h", "m", "o", "d">>)]
            ELSE /\ d.out.tag = "err"
                 /\ d.out.err.kind = "InvalidInstruction"

\* C9 witness: the three options in the order chmod, from, chown, with two sources
C9_Witness ==
    /\ FirstLineIs(<<"C", "O", "P", "Y">>)
    /\ dispatched[1].full_args = <<"-", "-", "c", "h", "m", "o", "d", "=", "0", " ", "-", "-", "f", "r", "o", "m", "=", "b", " ", "-", "-", "c", "h", "o", "w", "n", "=", "u", ":", "g", " ", "x", " ", "/", "y", " ", "/", "y">>
    /\ FirstInstruction = [kind |-> "Copy", sources |-> <<<<"x">>, <<"/", "y">>>>,
                           destination |-> <<"/", "y">>, from |-> Some(<<"b">>),
                           chown |-> Some(<<"u", ":", "g">>), chmod |-> Some(<<"0">>)]

----------------------------------------------------------------------------
(* EXPOSE port tokens.                                                     *)

PortTexts ==
    { <<"8", "0">>, <<"4", "4", "3">>, <<"0">>, <<"6", "5", "5", "3", "5">>, <<"6", "5", "5", "3", "6">>, <<"7", "0", "0", "0", "0">>, <<>>, <<"8", "x">>, <<"+", "8", "0">>, <<"0", "8", "0">>, <<"-", "1">> }

PortSuffixes == { <<>>, <<"/", "t", "c", "p">>, <<"/", "u", "d", "p">>, <<"/">> }

PortTokens == { p \o s : p \in PortTexts, s \in PortSuffixes }

NextExpose ==
    \/ /\ calls = 0
       /\ \E tokens \in SeqsUpTo(PortTokens, MaxPorts) :
              ParseLine(<<"E", "X", "P", "O", "S", "E">>, JoinWith(tokens, <<" ">>))
    \/ DispatchLine
    \/ ReturnStages

\* one-line EXPOSE files
SpecExpose == Init /\ [][NextExpose]_vars

\* the text of token t before its first '/', and the text after it
PortPart(t) == IF FindChar(t, "/") = 0 THEN t ELSE SubSeq(t, 1, FindChar(t, "/") - 1)

HasSuffix(t) == FindChar(t, "/") # 0

SuffixOf(t) == SubSeq(t, FindChar(t, "/") + 1, Len(t))

\* the number a run of decimal digits writes
RECURSIVE NumberOf(_)
NumberOf(s) ==
    IF s = <<>> THEN 0 ELSE 10 * NumberOf(SubSeq(s, 1, Len(s) - 1)) + DigitValue(s[Len(s)])

\* s is one or more decimal digits that write a number in 0..65535
IsPortNumber(s) ==
    /\ s # <<>>
    /\ \A k \in 1..Len(s) : s[k] \in {"0", "1", "2", "3", "4", "5", "6", "7", "8", "9"}
    /\ NumberOf(s) <= 65535

\* the same, with a '+' allowed before the digits
IsSignedPortNumber(s) == IsPortNumber(IF s # <<>> /\ Head(s) = "+" THEN Tail(s) ELSE s)

SignedNumberOf(s) == NumberOf(IF Head(s) = "+" THEN Tail(s) ELSE s)

\* the suffixes of the tokens that have one, in token order
Suffixes(tokens) ==
    LET with == SelectSeq(tokens, HasSuffix)
    IN  [k \in 1..Len(with) |-> SuffixOf(with[k])]

\* all the suffixes present among tokens are equal
OneProtocol(tokens) ==
    \A a, b \in 1..Len(Suffixes(tokens)) : Suffixes(tokens)[a] = Suffixes(tokens)[b]

\* C10 as stated: EXPOSE succeeds exactly when every token's port part is a
\* decimal number in 0..65535 and all suffixes present are equal.
C10_Original ==
    FirstLineIs(<<"E", "X", "P", "O", "S", "E">>) =>
        LET tokens == SplitWhitespace(dispatched[1].full_args)
        IN  dispatched[1].out.tag = "ok" <=>
                /\ \A k \in 1..Len(tokens) : IsPortNumber(PortPart(tokens[k]))
                /\ OneProtocol(tokens)

\* C10 amended: EXPOSE succeeds exactly when every token's port part is a decimal
\* number in 0..65535, optionally preceded by '+', and all suffixes present are
\* equal; ports then lists the numbers in token order and protocol is the first
\* suffix (absent without one).  Otherwise it fails at the first offending token:
\* with the invalid-port error when that token's port part is no such number,
\* else with the mixed-protocols error.
C10_Expose ==
    FirstLineIs(<<"E", "X", "P", "O", "S", "E">>) =>
        LET d == dispatched[1]
            tokens == SplitWhitespace(d.full_args)
            bad(k) == \/ ~IsSignedPortNumber(PortPart(tokens[k]))
                      \/ ~OneProtocol(SubSeq(tokens, 1, k))
        IN  IF \A k \in 1..Len(tokens) : ~bad(k)
            THEN /\ d.out.tag = "ok"
                 /\ FirstInstruction =
                        [kind |-> "Expose",
                         ports |-> [k \in 1..Len(tokens) |-> SignedNumberOf(PortPart(tokens[k]))],
                         protocol |-> IF Suffixes(tokens) = <<>> THEN None
                                      ELSE Some(Suffixes(tokens)[1])]
            ELSE LET k == CHOOSE k \in 1..Len(tokens) : bad(k) /\ \A j \in 1..(k - 1) : ~bad(j)
                 IN  /\ d.out.tag = "err"
                     /\ d.out.stages = FreshStages
                     /\ d.out.err =
                            IF ~IsSignedPortNumber(PortPart(tokens[k]))
                            THEN InvalidInstruction(<<"Invalid port", PortPart(tokens[k])>>)
                            ELSE InvalidInstruction(<<"Mixed protocols in EXPOSE">>)

\* C10 witness: EXPOSE 80/tcp 443/tcp has been parsed into two ports over tcp
C10_Witness ==
    /\ FirstLineIs(<<"E", "X", "P", "O", "S", "E">>)
    /\ dispatched[1].full_args = <<"8", "0", "/", "t", "c", "p", " ", "4", "4", "3", "/", "t", "c", "p">>
    /\ FirstInstruction = [kind |-> "Expose", ports |-> <<80, 443>>, protocol |-> Some(<<"t", "c", "p">>)]


----------------------------------------------------------------------------
(* ENV remainders.                                                         *)

\* KEY=VALUE pairs of an ENV remainder in SpecEnv
MaxPairs == 2

EnvKeys == { <<"A">>, <<"B">>, <<"C">> }

\* values as written, with the value they stand for once the quotes are removed;
\* closed is FALSE for a quoted value without an unescaped closing quote
EnvValues ==
    { [written |-> <<"1">>, value |-> <<"1">>, closed |-> TRUE],
      [written |-> <<"\"", "t", "w", "o", " ", "w", "o", "r", "d", "s", "\"">>, value |-> <<"t", "w", "o", " ", "w", "o", "r", "d", "s">>, closed |-> TRUE],
      [written |-> <<"\"", "a", "\\", "\"", "b", "\"">>, value |-> <<"a", "\\", "\"", "b">>, closed |-> TRUE],
      [written |-> <<"\"", "\"">>, value |-> <<>>, closed |-> TRUE],
      [written |-> <<"\"">> \o <<TwoByteChar>> \o <<"\"">>, value |-> <<TwoByteChar>>,
       closed |-> TRUE],
      [written |-> <<"\"", "u", "n", "t", "e", "r", "m", "i", "n", "a", "t", "e", "d">>, value |-> <<>>, closed |-> FALSE],
      [written |-> <<"\"", "a", "\\", "\"">>, value |-> <<>>, closed |-> FALSE] }

EnvSeparators == { <<" ">>, <<" ", " ">>, <<"\t">> }

\* the sequences of n distinct keys
KeySeqs(n) == { ks \in [1..n -> EnvKeys] : \A a, b \in 1..n : a # b => ks[a] # ks[b] }

\* the sequences of n values of which only the last may be unclosed
ValueSeqs(n) == { vs \in [1..n -> EnvValues] : \A k \in 1..(n - 1) : vs[k].closed }

\* one to MaxPairs pairs KEY=VALUE and the remainder they are written as
EnvCases ==
    UNION { { [keys |-> ks, values |-> vs,
               text |-> JoinWith([k \in 1..n |-> ks[k] \o <<"=">> \o vs[k].written], sep)] :
                  ks \in KeySeqs(n), vs \in ValueSeqs(n), sep \in EnvSeparators } :
            n \in 1..MaxPairs }

\* remainders without '=': the legacy form
LegacyRemainders ==
    { <<>>, <<"K", "E", "Y">>, <<"K", "E", "Y", " ", "v", "a", "l", "u", "e">>, <<"K", "E", "Y", " ", " ", "v", "a", "l", "u", "e">>, <<"K", "E", "Y", " ", "a", " ", "b">>, <<"K", "E", "Y", "\t", "v", "a", "l", "u", "e">>, <<"\"">> }

NextEnv ==
    \/ /\ calls = 0
       /\ \E remainder \in { c.text : c \in EnvCases } \cup LegacyRemainders :
              ParseLine(<<"E", "N", "V">>, remainder)
    \/ DispatchLine
    \/ ReturnStages

\* one-line ENV files
SpecEnv == Init /\ [][NextEnv]_vars

\* the mapping a case stands for
MappingOf(c) ==
    [key \in { c.keys[k] : k \in 1..Len(c.keys) } |->
         c.values[CHOOSE k \in 1..Len(c.keys) : c.keys[k] = key].value]

\* C11: an ENV remainder of pairs KEY=VALUE with distinct keys, separated by
\* whitespace, each value an unquoted token or a double-quoted string, yields the
\* mapping of exactly those keys to their values without the surrounding quotes;
\* a quoted value without an unescaped closing quote makes the instruction fail.
C11_EnvPairs ==
    FirstLineIs(<<"E", "N", "V">>) =>
        \A c \in EnvCases :
            c.text = dispatched[1].full_args =>
                IF \A k \in 1..Len(c.values) : c.values[k].closed
                THEN /\ dispatched[1].out.tag = "ok"
                     /\ FirstInstruction = [kind |-> "Env", variables |-> MappingOf(c)]
                ELSE dispatched[1].out.tag = "err"

\* the example of the claim is parsed as the claim says
C11_Example ==
    /\ FirstLineIs(<<"E", "N", "V">>)
    /\ dispatched[1].full_args = <<"A", "=", "1", " ", "B", "=", "\"", "t", "w", "o", " ", "w", "o", "r", "d", "s", "\"">>
    /\ FirstInstruction = [kind |-> "Env",
                           variables |-> (<<"A">> :> <<"1">> @@ <<"B">> :> <<"t", "w", "o", " ", "w", "o", "r", "d", "s">>)]


----------------------------------------------------------------------------
(* Line continuation.                                                      *)

ContinuationPool ==
    { <<"R", "U", "N", " ", "e", "c", "h", "o", " ", "1", " ", "\\">>, <<" ", " ", "&", "&", " ", "e", "c", "h", "o", " ", "2">>, <<"R", "U", "N", " ", "a">>, <<"r", "u", "n", " ", "b", " ", "\\", " ", " ">>, <<"W", "O", "R", "K", "D", "I", "R", " ", "\\">>, <<"#", " ", "c">>, <<>> }

NextContinuation ==
    \/ /\ calls = 0
       /\ \E content \in Files(ContinuationPool, MaxLines) : ParseContent(content)
    \/ DispatchLine
    \/ ReturnStages

\* one call on a new parser, with files of lines that end in a backslash or not
SpecContinuation == Init /\ [][NextContinuation]_vars

\* the remainder of retained line k (0-based): its text after the first space
ArgsOf(k) == IF FindChar(lines[k + 1], " ") = 0 THEN <<>>
             ELSE SubSeq(lines[k + 1], FindChar(lines[k + 1], " ") + 1, Len(lines[k + 1]))

\* the remainder of line f once lines f+1..l have been appended to it, each after
\* the removal of the last character of the text so far
RECURSIVE MergedArgs(_, _)
MergedArgs(f, l) ==
    IF l <= f THEN ArgsOf(f)
    ELSE LET sofar == MergedArgs(f, l - 1)
         IN  SubSeq(sofar, 1, Len(sofar) - 1) \o Trim(lines[l + 1])

\* the number of lines appended to the first n logical lines
RECURSIVE Merges(_)
Merges(n) == IF n = 0 THEN 0
             ELSE dispatched[n].last - dispatched[n].first + Merges(n - 1)

RECURSIVE InstructionCount(_)
InstructionCount(st) ==
    IF st = <<>> THEN 0 ELSE Len(Head(st).instructions) + InstructionCount(Tail(st))

\* C12: each logical line starts right after the previous one and takes the
\* following retained lines as long as its remainder so far ends with a backslash
\* and a retained line follows; every merge removes the backslash and appends the
\* trimmed next line, and a last backslash with no line after it stays.  A parse
\* that succeeds has dispatched every retained line once, as a line of its own
\* or as an appended one, so it produces as many instructions as there are
\* retained lines minus merges.
C12_Continuation ==
    /\ \A n \in 1..Len(dispatched) :
           LET d == dispatched[n]
           IN  /\ d.first = IF n = 1 THEN 0 ELSE dispatched[n - 1].last + 1
               /\ d.first <= d.last
               /\ d.last < Len(lines)
               /\ \A j \in d.first..(d.last - 1) : EndsWith(MergedArgs(d.first, j), <<"\\">>)
               /\ d.full_args = MergedArgs(d.first, d.last)
               /\ EndsWith(d.full_args, <<"\\">>) => d.last = Len(lines) - 1
    /\ (calls = 1 /\ pc = "returned" /\ result.tag = "Ok") =>
           /\ dispatched # <<>> => dispatched[Len(dispatched)].last = Len(lines) - 1
           /\ dispatched = <<>> => lines = <<>>
           /\ Len(dispatched) = Len(lines) - Merges(Len(dispatched))
           /\ InstructionCount(result.stages) = Len(dispatched)
    /\ (calls = 1 /\ pc = "returned" /\ lines = <<<<"R", "U", "N", " ", "e", "c", "h", "o", " ", "1", " ", "\\">>, <<"&", "&", " ", "e", "c", "h", "o", " ", "2">>>>) =>
           result = [tag |-> "Ok",
                     stages |-> <<[name |-> None, base_image |-> None,
                                   instructions |-> <<[kind |-> "Run",
                                                       command |-> <<"e", "c", "h", "o", " ", "1", " ", "&", "&", " ", "e", "c", "h", "o", " ", "2">>]>>]>>]

\* C12 witness: RUN echo 1 \ and && echo 2, with a comment line between them, have
\* been merged into one Run
C12_Witness ==
    /\ calls = 1
    /\ pc = "returned"
    /\ call_content = JoinLines(<<<<"R", "U", "N", " ", "e", "c", "h", "o", " ", "1", " ", "\\">>, <<"#", " ", "c">>, <<" ", " ", "&", "&", " ", "e", "c", "h", "o", " ", "2">>>>)
    /\ Len(dispatched) = 1
    /\ dispatched[1].first = 0 /\ dispatched[1].last = 1
    /\ result.tag = "Ok"
    /\ result.stages[1].instructions = <<[kind |-> "Run", command |-> <<"e", "c", "h", "o", " ", "1", " ", "&", "&", " ", "e", "c", "h", "o", " ", "2">>]>>

\* C12 witness of the last clause: a final backslash with no line after it stays
C12_FinalBackslash ==
    /\ calls = 1
    /\ pc = "returned"
    /\ lines = <<<<"W", "O", "R", "K", "D", "I", "R", " ", "\\">>>>
    /\ result.tag = "Ok"
    /\ result.stages[1].instructions = <<[kind |-> "Workdir", path |-> <<"\\">>]>>


----------------------------------------------------------------------------
(* parse_content as a function of the retained lines and the accumulator.  *)

\* the while loop from line k (0-based) on, and the value parse_content returns
RECURSIVE ParseLoop(_, _, _, _)
ParseLoop(ls, k, st, cur) ==
    IF k >= Len(ls) THEN [tag |-> "Ok", stages |-> st]
    ELSE LET parts == SplitN2(ls[k + 1], " ")
             instruction == parts[1]
             args == IF Len(parts) = 2 THEN parts[2] ELSE <<>>
             merged == Continuation(ls, args, k)
             out == Dispatch(instruction, st, cur, merged[1])
         IN  CASE out.tag = "ok" -> ParseLoop(ls, merged[2] + 1, out.stages, out.current_stage)
               [] out.tag = "err" -> [tag |-> "Err", err |-> out.err]
               [] OTHER -> [tag |-> "Panic"]

\* what a new parser makes of content
ParseNew(content) == ParseLoop(RetainedLines(content), 0, <<StageNew(None)>>, 0)

----------------------------------------------------------------------------
(* Blank lines and comment lines.                                          *)

InvisiblePool == { <<>>, <<" ", " ">>, <<"\t">>, <<"#", " ", "c">>, <<" ", " ", "#", " ", "R", "U", "N", " ", "z">>, <<"#">> }

VisiblePool == { <<"R", "U", "N", " ", "a", " ", "\\">>, <<" ", " ", "x", " ", "y">>, <<"F", "R", "O", "M", " ", "a">>, <<"E", "X", "P", "O", "S", "E", " ", "x">> }

NextInvisible ==
    \/ /\ calls = 0
       /\ \E content \in Files(VisiblePool \cup InvisiblePool, MaxLines) : ParseContent(content)
    \/ DispatchLine
    \/ ReturnStages

\* one call on a new parser, with files of instruction, blank and comment lines
SpecInvisible == Init /\ [][NextInvisible]_vars

\* line has no character but whitespace, or its first other character is '#'
IsInvisible(line) ==
    LET seen == SelectSeq(line, LAMBDA c : ~IsWhitespace(c))
    IN  seen = <<>> \/ Head(seen) = "#"

\* content without its blank and comment lines
WithoutInvisible(content) ==
    JoinLines(SelectSeq(SplitLines(content), LAMBDA line : ~IsInvisible(line)))

\* C13: a call on a new parser returns for its content what a new parser returns
\* for the content without its blank and comment lines, the same stages or the
\* same error; the lines it works on are those of the content without them.
C13_Invisible ==
    calls = 1 =>
        /\ lines = RetainedLines(WithoutInvisible(call_content))
        /\ pc = "returned" => result = ParseNew(WithoutInvisible(call_content))
        /\ pc = "panicked" => ParseNew(WithoutInvisible(call_content)).tag = "Panic"

\* C13 witness: a comment line and a blank line between a continued line and the
\* line that continues it have left one Run
C13_Witness ==
    /\ calls = 1
    /\ pc = "returned"
    /\ call_content = JoinLines(<<<<"R", "U", "N", " ", "a", " ", "\\">>, <<" ", " ", "#", " ", "R", "U", "N", " ", "z">>, <<" ", " ", "x", " ", "y">>>>)
    /\ WithoutInvisible(call_content) = JoinLines(<<<<"R", "U", "N", " ", "a", " ", "\\">>, <<" ", " ", "x", " ", "y">>>>)
    /\ result = [tag |-> "Ok",
                 stages |-> <<[name |-> None, base_image |-> None,
                               instructions |-> <<[kind |-> "Run", command |-> <<"a", " ", "x", " ", "y">>]>>]>>]


----------------------------------------------------------------------------
(* Calls on one parser object.                                             *)

\* C14: whatever calls were made on the parser before, a call returns for its
\* content what a new parser returns for it, so that two calls with the same
\* content return equal stage sequences.
C14_FunctionOfContent ==
    pc = "returned" => result = ParseNew(call_content)


----------------------------------------------------------------------------
(* Every wired parser on short remainders.                                 *)

\* characters of a remainder in SpecTotal
MaxChars == 3

RemainderChars == { "a", "=", "\"", " ", "\t", "-", TwoByteChar }

NextTotal ==
    \/ /\ calls = 0
       /\ \E keyword \in WiredKeywords, remainder \in SeqsUpTo(RemainderChars, MaxChars) :
              ParseLine(keyword, remainder)
    \/ DispatchLine
    \/ ReturnStages

\* one-line files: each wired keyword with every remainder of up to MaxChars characters
SpecTotal == Init /\ [][NextTotal]_vars

ErrorKinds ==
    { "Io", "Parse", "InvalidInstruction", "MissingArgument", "Json", "FromNotFirst",
      "UnknownInstruction" }

\* C15: on every remainder each wired parser either succeeds, with exactly one
\* instruction appended, or fails with a RockerfileError; none panics.
C15_Total ==
    FirstLine =>
        LET d == dispatched[1]
        IN  /\ d.out.tag \in {"ok", "err"}
            /\ d.out.tag = "ok" => InstructionCount(d.out.stages) = 1
            /\ d.out.tag = "err" =>
                   /\ d.out.err.kind \in ErrorKinds
                   /\ InstructionCount(d.out.stages) = 0


----------------------------------------------------------------------------
(* The stages handed to the caller.                                        *)

\* C16: no stage sequence that parse_content returns has a stage without
\* instructions, also for an empty or comment-only content.
C16_NoEmptyStage ==
    (pc = "returned" /\ result.tag = "Ok") =>
        \A k \in 1..Len(result.stages) : result.stages[k].instructions # <<>>

\* C17: FROM fails on an empty remainder and succeeds on every other one; no From
\* instruction has an empty image and no stage an empty base image.
C17_FromNeedsImage ==
    (FirstLine /\ ToUppercase(dispatched[1].instruction) = <<"F", "R", "O", "M">>) =>
        LET d == dispatched[1]
        IN  /\ d.full_args = <<>> => d.out.tag = "err"
            /\ d.full_args # <<>> => d.out.tag = "ok"
            /\ d.out.tag = "ok" =>
                   /\ FirstInstruction.image # <<>>
                   /\ d.out.stages[1].base_image # Some(<<>>)

----------------------------------------------------------------------------
(* Error kinds.                                                            *)

ErrorPool ==
    { <<"E", "N", "V", " ", "A", "=", "\"", "x">>, <<"L", "A", "B", "E", "L", " ", "a", "=", "\"", "x">>, <<"L", "A", "B", "E", "L", " ", "a", "=", "1", " ", "b", "=", "\"", "x", " ", "y">>, <<"C", "O", "P", "Y", " ", "-", "-", "l", "i", "n", "k", " ", "x", " ", "y">>,
      <<"C", "O", "P", "Y", " ", "-", "-", "f", "r", "o", "m", " ", "x", " ", "y">>, <<"E", "X", "P", "O", "S", "E", " ", "x">>, <<"E", "X", "P", "O", "S", "E", " ", "8", "0", "/", "t", "c", "p", " ", "7", "0", "0", "0", "0">>, <<"E", "X", "P", "O", "S", "E", " ", "8", "0", "/", "t", "c", "p", " ", "8", "1", "/", "u", "d", "p">>,
      <<"V", "O", "L", "U", "M", "E", " ", "[", "x", "]">>, <<"R", "U", "N", " ", "x">> }

NextErrors ==
    \/ /\ calls = 0
       /\ \E content \in Files(ErrorPool, MaxLines) : ParseContent(content)
    \/ DispatchLine
    \/ ReturnStages

\* one call on a new parser, with files of lines that fail
SpecErrors == Init /\ [][NextErrors]_vars

\* the kind the logical line "KEYWORD remainder" has failed with, "" if it was
\* never dispatched or did not fail
RECURSIVE FailureKind(_, _, _)
FailureKind(keyword, remainder, n) ==
    IF n = 0 THEN ""
    ELSE IF /\ dispatched[n].instruction = keyword
            /\ dispatched[n].full_args = remainder
            /\ dispatched[n].out.tag = "err"
         THEN dispatched[n].out.err.kind
         ELSE FailureKind(keyword, remainder, n - 1)

\* the logical line "KEYWORD remainder" has been dispatched
Tried(keyword, remainder) ==
    \E n \in 1..Len(dispatched) :
        dispatched[n].instruction = keyword /\ dispatched[n].full_args = remainder

\* C18: an unterminated double-quoted value in ENV or LABEL fails with the Parse
\* kind; a bad COPY option, a bad EXPOSE port and mixed EXPOSE protocols fail
\* with the InvalidInstruction kind.
C18_ErrorKinds ==
    /\ \A line \in { <<<<"E", "N", "V">>, <<"A", "=", "\"", "x">>>>, <<<<"L", "A", "B", "E", "L">>, <<"a", "=", "\"", "x">>>>, <<<<"L", "A", "B", "E", "L">>, <<"a", "=", "1", " ", "b", "=", "\"", "x", " ", "y">>>> } :
           Tried(line[1], line[2]) =>
               FailureKind(line[1], line[2], Len(dispatched)) = "Parse"
    /\ \A line \in { <<<<"C", "O", "P", "Y">>, <<"-", "-", "l", "i", "n", "k", " ", "x", " ", "y">>>>, <<<<"C", "O", "P", "Y">>, <<"-", "-", "f", "r", "o", "m", " ", "x", " ", "y">>>>,
                     <<<<"E", "X", "P", "O", "S", "E">>, <<"x">>>>, <<<<"E", "X", "P", "O", "S", "E">>, <<"8", "0", "/", "t", "c", "p", " ", "7", "0", "0", "0", "0">>>>,
                     <<<<"E", "X", "P", "O", "S", "E">>, <<"8", "0", "/", "t", "c", "p", " ", "8", "1", "/", "u", "d", "p">>>> } :
           Tried(line[1], line[2]) =>
               FailureKind(line[1], line[2], Len(dispatched)) = "InvalidInstruction"

----------------------------------------------------------------------------
(* ENV legacy form and the shape of Copy.                                  *)

\* C19: an ENV remainder without '=' yields the mapping of exactly one pair: the
\* text before the first space as key, the rest of the remainder as value.
C19_LegacyEnv ==
    (FirstLineIs(<<"E", "N", "V">>) /\ FindChar(dispatched[1].full_args, "=") = 0) =>
        LET args == dispatched[1].full_args
            space == IF FindChar(args, " ") = 0 THEN Len(args) + 1 ELSE FindChar(args, " ")
            key == SubSeq(args, 1, space - 1)
            value == SubSeq(args, space + 1, Len(args))
        IN  /\ dispatched[1].out.tag = "ok"
            /\ FirstInstruction = [kind |-> "Env", variables |-> (key :> value)]

\* C20: a COPY without options whose remainder has no space fails with
\* InvalidInstruction; every Copy produced has at least one source and a
\* non-empty destination, the last whitespace-delimited token of the remainder.
C20_CopyShape ==
    (FirstLineIs(<<"C", "O", "P", "Y">>) /\ ~StartsWith(dispatched[1].full_args, <<"-", "-">>)) =>
        LET d == dispatched[1]
        IN  /\ FindChar(d.full_args, " ") = 0 =>
                   d.out.tag = "err" /\ d.out.err.kind = "InvalidInstruction"
            /\ d.out.tag = "ok" =>
                   /\ FirstInstruction.kind = "Copy"
                   /\ FirstInstruction.sources # <<>>
                   /\ FirstInstruction.destination # <<>>
                   /\ LET words == SplitWhitespace(d.full_args)
                      IN  FirstInstruction.destination = words[Len(words)]


----------------------------------------------------------------------------
(* Instruction::to_string.  A HashMap is iterated in an order that depends  *)
(* on the hasher's random seed, so to_string of an Env or a Label has one   *)
(* outcome per order of the keys: ToStrings is the set of the outcomes.     *)

\* the decimal text of a number
RECURSIVE NatToText(_)
NatToText(n) ==
    IF n < 10 THEN <<Digits[n + 1]>> ELSE NatToText(n \div 10) \o <<Digits[(n % 10) + 1]>>

\* a character inside a JSON string, as serde_json writes it
JsonWriteChar(c) ==
    CASE c = "\"" -> <<"\\", "\"">>
      [] c = "\\" -> <<"\\", "\\">>
      [] c = "\n" -> <<"\\", "n">>
      [] c = "\t" -> <<"\\", "t">>
      [] c = "\r" -> <<"\\", "r">>
      [] c = "<08>" -> <<"\\", "b">>
      [] c = "<0C>" -> <<"\\", "f">>
      [] OTHER -> <<c>>

RECURSIVE JsonWriteString(_)
JsonWriteString(t) ==
    IF t = <<>> THEN <<>> ELSE JsonWriteChar(Head(t)) \o JsonWriteString(Tail(t))

\* serde_json::to_string of a Vec<String>
JsonToString(ts) ==
    <<"[">> \o JoinWith([k \in 1..Len(ts) |-> <<"\"">> \o JsonWriteString(ts[k]) \o <<"\"">>], <<",">>)
         \o <<"]">>

\* the orders in which a map may be iterated
IterationOrders(map) ==
    { o \in [1..Cardinality(DOMAIN map) -> DOMAIN map] :
          \A a, b \in DOMAIN o : a # b => o[a] # o[b] }

\* the pairs of map written k=v in order o, a space between them
PairsText(map, o) == JoinWith([k \in 1..Len(o) |-> o[k] \o <<"=">> \o map[o[k]]], <<" ">>)

\* the options of a Copy that are present, each followed by a space
CopyOptionsText(ins) ==
    LET options == (IF ins.from = None THEN <<>> ELSE <<<<"-", "-", "f", "r", "o", "m", "=">> \o ins.from[1]>>)
                   \o (IF ins.chown = None THEN <<>> ELSE <<<<"-", "-", "c", "h", "o", "w", "n", "=">> \o ins.chown[1]>>)
                   \o (IF ins.chmod = None THEN <<>> ELSE <<<<"-", "-", "c", "h", "m", "o", "d", "=">> \o ins.chmod[1]>>)
    IN  IF options # <<>> THEN JoinWith(options, <<" ">>) \o <<" ">> ELSE <<>>

\* Instruction::to_string, for the variants the parser produces
ToStrings(ins) ==
    CASE ins.kind = "From" ->
             { IF ins.as_name # None
               THEN <<"F", "R", "O", "M", " ">> \o ins.image \o <<" ", "A", "S", " ">> \o ins.as_name[1]
               ELSE <<"F", "R", "O", "M", " ">> \o ins.image }
      [] ins.kind = "Run" -> { <<"R", "U", "N", " ">> \o ins.command }
      [] ins.kind = "Copy" ->
             { <<"C", "O", "P", "Y", " ">> \o CopyOptionsText(ins) \o JoinWith(ins.sources, <<" ">>)
                        \o <<" ">> \o ins.destination }
      [] ins.kind = "Workdir" -> { <<"W", "O", "R", "K", "D", "I", "R", " ">> \o ins.path }
      [] ins.kind = "Env" ->
             { <<"E", "N", "V", " ">> \o PairsText(ins.variables, o) : o \in IterationOrders(ins.variables) }
      [] ins.kind = "Arg" ->
             { IF ins.default_value # None
               THEN <<"A", "R", "G", " ">> \o ins.name \o <<"=">> \o ins.default_value[1]
               ELSE <<"A", "R", "G", " ">> \o ins.name }
      [] ins.kind = "Expose" ->
             { LET proto == IF ins.protocol = None THEN <<"t", "c", "p">> ELSE ins.protocol[1]
               IN  <<"E", "X", "P", "O", "S", "E", " ">> \o JoinWith([k \in 1..Len(ins.ports) |->
                                               NatToText(ins.ports[k]) \o <<"/">> \o proto], <<" ">>) }
      [] ins.kind = "Label" ->
             { <<"L", "A", "B", "E", "L", " ">> \o PairsText(ins.labels, o) : o \in IterationOrders(ins.labels) }
      [] ins.kind = "User" ->
             { IF ins.group # None
               THEN <<"U", "S", "E", "R", " ">> \o ins.user \o <<":">> \o ins.group[1]
               ELSE <<"U", "S", "E", "R", " ">> \o ins.user }
      [] ins.kind = "Volume" -> { <<"V", "O", "L", "U", "M", "E", " ">> \o JoinWith(ins.paths, <<" ">>) }
      [] ins.kind = "Cmd" -> { <<"C", "M", "D", " ">> \o JsonToString(ins.command) }
      [] ins.kind = "Entrypoint" -> { <<"E", "N", "T", "R", "Y", "P", "O", "I", "N", "T", " ">> \o JsonToString(ins.command) }

\* C21: to_string of the Env parsed from pairs KEY=VALUE lists the pairs in the
\* order of the source line, and is the same string on every run.
C21_InsertionOrder ==
    FirstLineIs(<<"E", "N", "V">>) =>
        \A c \in EnvCases :
            (/\ c.text = dispatched[1].full_args
             /\ dispatched[1].out.tag = "ok"
             /\ FirstInstruction.variables = MappingOf(c)) =>
                ToStrings(FirstInstruction) =
                    { <<"E", "N", "V", " ">> \o JoinWith([k \in 1..Len(c.keys) |->
                                               c.keys[k] \o <<"=">> \o c.values[k].value], <<" ">>) }


----------------------------------------------------------------------------
(* The transitions of the accumulator.                                     *)

\* this step has dispatched a logical line, which was parsed successfully
Parsed == Len(dispatched') = Len(dispatched) + 1 /\ dispatched'[Len(dispatched')].out.tag = "ok"

\* the line dispatched by this step
JustDispatched == dispatched'[Len(dispatched')]

\* C22, one step: a FROM on a current stage that has instructions pushes one stage
\* at the end, named by the alias, and makes it current; on the empty bootstrap
\* stage it creates none and sets the name of the current stage.  The From is then
\* the last instruction of the current stage, whose base image is its image, and
\* every other stage is unchanged.
FromTransition ==
    (Parsed /\ IsFromLine(JustDispatched)) =>
        LET image == ImageOf(JustDispatched.full_args)
            alias == AliasOf(JustDispatched.full_args)
            old == stages[current_stage + 1]
            new == stages'[current_stage' + 1]
        IN  /\ IF old.instructions # <<>>
               THEN /\ Len(stages') = Len(stages) + 1
                    /\ current_stage' = Len(stages)
                    /\ SubSeq(stages', 1, Len(stages)) = stages
                    /\ Len(new.instructions) = 1
               ELSE /\ Len(stages') = Len(stages)
                    /\ current_stage' = current_stage
                    /\ \A k \in 1..Len(stages) : k # current_stage + 1 => stages'[k] = stages[k]
                    /\ new.instructions = Append(old.instructions, new.instructions[1])
            /\ new.name = alias
            /\ new.base_image = Some(image)
            /\ new.instructions[Len(new.instructions)].kind = "From"
            /\ new.instructions[Len(new.instructions)].image = image

\* C22: every step that parses a FROM is a From transition
C22_FromTransition == [][FromTransition]_vars

\* C22 witness: FROM c has filled the bootstrap stage and FROM a AS b has pushed a
\* second stage, named b, which is the current one
C22_Witness ==
    /\ Len(stages) = 2
    /\ current_stage = 1
    /\ stages[1].instructions = <<[kind |-> "From", image |-> <<"c">>, as_name |-> None]>>
    /\ stages[1].name = None /\ stages[1].base_image = Some(<<"c">>)
    /\ stages[2].name = Some(<<"b">>) /\ stages[2].base_image = Some(<<"a">>)
    /\ Len(stages[2].instructions) = 1

\* C23, one step: a parsed instruction other than FROM is appended at the end of
\* the current stage and nothing else changes; and no step at all removes a stage
\* or removes or reorders a recorded instruction.
NonFromTransition ==
    /\ (Parsed /\ ~IsFromLine(JustDispatched)) =>
           /\ Len(stages') = Len(stages)
           /\ current_stage' = current_stage
           /\ \A k \in 1..Len(stages) :
                  /\ stages'[k].name = stages[k].name
                  /\ stages'[k].base_image = stages[k].base_image
                  /\ k # current_stage + 1 => stages'[k].instructions = stages[k].instructions
           /\ LET old == stages[current_stage + 1].instructions
                  new == stages'[current_stage + 1].instructions
              IN  /\ Len(new) = Len(old) + 1
                  /\ SubSeq(new, 1, Len(old)) = old
                  /\ new[Len(new)].kind # "From"
    /\ Len(stages') >= Len(stages)
    /\ \A k \in 1..Len(stages) :
           LET old == stages[k].instructions
               new == stages'[k].instructions
           IN  Len(new) >= Len(old) /\ SubSeq(new, 1, Len(old)) = old

\* C23: every step that parses an instruction other than FROM is such a transition
C23_NonFromTransition == [][NonFromTransition]_vars

\* C23 witness: a RUN before any FROM has been appended to the bootstrap stage, and
\* a COPY after a later FROM to the second stage
C23_Witness ==
    /\ Len(stages) = 2
    /\ Len(stages[1].instructions) = 1
    /\ stages[1].instructions[1].kind = "Run"
    /\ stages[1].base_image = None
    /\ Len(stages[2].instructions) = 2
    /\ stages[2].instructions[2].kind = "Copy"


----------------------------------------------------------------------------
(* The separator between keyword and remainder.                            *)

KeywordSeparators == { <<" ">>, <<"\t">>, <<" ", " ">>, <<"\t", " ">> }

SeparatorRemainders == { <<"e", "c", "h", "o", " ", "h", "i">>, <<"a">>, <<"a", "\t", "b", " ", "c">>, <<"k", "=", "v">> }

NextSeparator ==
    \/ /\ calls = 0
       /\ \E keyword \in WiredKeywords, sep \in KeywordSeparators,
             remainder \in SeparatorRemainders :
              ParseContent(JoinLines(<<keyword \o sep \o remainder>>))
    \/ DispatchLine
    \/ ReturnStages

\* one-line files with a space or a tab after the keyword
SpecSeparator == Init /\ [][NextSeparator]_vars

\* the position of the first whitespace character of t, Len(t) + 1 without one
FirstWhitespace(t) ==
    IF \E k \in 1..Len(t) : IsWhitespace(t[k])
    THEN CHOOSE k \in 1..Len(t) : IsWhitespace(t[k]) /\ \A j \in 1..(k - 1) : ~IsWhitespace(t[j])
    ELSE Len(t) + 1

\* C24: the keyword of a retained line is its text before the first whitespace
\* character, a space or a tab, and the remainder is the text after that
\* character; RUN<TAB>echo hi is dispatched as RUN with the remainder echo hi.
C24_KeywordSplit ==
    FirstLine =>
        /\ dispatched[1].instruction = SubSeq(lines[1], 1, FirstWhitespace(lines[1]) - 1)
        /\ dispatched[1].full_args =
               SubSeq(lines[1], FirstWhitespace(lines[1]) + 1, Len(lines[1]))
        /\ lines[1] = <<"R", "U", "N", "\t", "e", "c", "h", "o", " ", "h", "i">> =>
               /\ dispatched[1].out.tag = "ok"
               /\ FirstInstruction = [kind |-> "Run", command |-> <<"e", "c", "h", "o", " ", "h", "i">>]


----------------------------------------------------------------------------
(* LABEL remainders.                                                       *)

LabelKeys == { <<"a">>, <<"b">>, <<"c">> }

\* what may stand at a key position: key=value, with the value unquoted or
\* quoted; key value; and a key alone, with neither '=' nor a space after it
LabelItems ==
    UNION { { [key |-> k, written |-> k \o <<"=", "1">>, value |-> <<"1">>, lone |-> FALSE],
              [key |-> k, written |-> k \o <<"=", "\"", "x", " ", "y", "\"">>, value |-> <<"x", " ", "y">>, lone |-> FALSE],
              [key |-> k, written |-> k \o <<"=", "\"", "\"">>, value |-> <<>>, lone |-> FALSE],
              [key |-> k, written |-> k \o <<" ", "2">>, value |-> <<"2">>, lone |-> FALSE],
              [key |-> k, written |-> k \o <<" ", "\"", "q">>, value |-> <<"\"", "q">>, lone |-> FALSE],
              [key |-> k, written |-> k, value |-> <<>>, lone |-> TRUE] } : k \in LabelKeys }

\* the sequences of n items with distinct keys, a lone key only in the last place
ItemSeqs(n) ==
    { is \in [1..n -> LabelItems] :
          /\ \A a, b \in 1..n : a # b => is[a].key # is[b].key
          /\ \A k \in 1..(n - 1) : ~is[k].lone }

\* one to MaxPairs items and the remainder they are written as
LabelCases ==
    UNION { { [items |-> is, text |-> JoinWith([k \in 1..n |-> is[k].written], sep)] :
                  is \in ItemSeqs(n), sep \in { <<" ">>, <<" ", " ">> } } : n \in 1..MaxPairs }

NextLabel ==
    \/ /\ calls = 0
       /\ \E c \in LabelCases : ParseLine(<<"L", "A", "B", "E", "L">>, c.text)
    \/ DispatchLine
    \/ ReturnStages

\* one-line LABEL files
SpecLabel == Init /\ [][NextLabel]_vars

\* the mapping of the items that have a value
LabelsOf(c) ==
    LET valued == SelectSeq(c.items, LAMBDA it : ~it.lone)
    IN  [key \in { valued[k].key : k \in 1..Len(valued) } |->
             valued[CHOOSE k \in 1..Len(valued) : valued[k].key = key].value]

\* C25: LABEL reads each key in the form found at its position, key value when a
\* space comes before the first '=' (or no '=' is left), key=value otherwise,
\* with the quotes of a quoted value removed; a line may mix the forms, and every
\* key read is in the labels mapping.
C25_LabelForms ==
    FirstLineIs(<<"L", "A", "B", "E", "L">>) =>
        \A c \in LabelCases :
            c.text = dispatched[1].full_args =>
                /\ dispatched[1].out.tag = "ok"
                /\ FirstInstruction.kind = "Label"
                /\ \A k \in 1..Len(c.items) : c.items[k].key \in DOMAIN FirstInstruction.labels
                /\ \A key \in DOMAIN LabelsOf(c) : FirstInstruction.labels[key] = LabelsOf(c)[key]


----------------------------------------------------------------------------
(* The error kinds that are never raised.                                  *)

\* C26: no line fails with MissingArgument or FromNotFirst and no call returns
\* them; a first instruction other than FROM is accepted and recorded in stage 0,
\* which has no base image, and an empty remainder is no MissingArgument.
C26_NeverRaised ==
    /\ \A n \in 1..Len(dispatched) :
           dispatched[n].out.tag = "err" =>
               dispatched[n].out.err.kind \notin {"MissingArgument", "FromNotFirst"}
    /\ result.tag = "Err" => result.err.kind \notin {"MissingArgument", "FromNotFirst"}
    /\ (FirstLine /\ dispatched[1].instruction \in WiredKeywords \ {<<"F", "R", "O", "M">>}
                  /\ dispatched[1].out.tag = "ok") =>
           /\ Len(dispatched[1].out.stages) = 1
           /\ Len(dispatched[1].out.stages[1].instructions) = 1
           /\ FirstInstruction.kind = KindOf(dispatched[1].instruction)
           /\ dispatched[1].out.stages[1].base_image = None
    /\ (FirstLine /\ dispatched[1].instruction \in WiredKeywords \ {<<"C", "O", "P", "Y">>}
                  /\ dispatched[1].full_args = <<>>) =>
           dispatched[1].out.tag = "ok"

\* C26 witness: WORKDIR with an empty remainder, as the first instruction, has
\* been accepted into stage 0, which has no base image
C26_Witness ==
    /\ FirstLineIs(<<"W", "O", "R", "K", "D", "I", "R">>)
    /\ dispatched[1].full_args = <<>>
    /\ pc = "returned"
    /\ result = [tag |-> "Ok",
                 stages |-> <<[name |-> None, base_image |-> None,
                               instructions |-> <<[kind |-> "Workdir", path |-> <<>>]>>]>>]


----------------------------------------------------------------------------
(* Round trip through to_string.                                           *)

\* the stage a parsed line was recorded in, and the instruction it produced
StageOf(d) == d.out.stages[d.out.current_stage + 1]

ProducedBy(d) == StageOf(d).instructions[Len(StageOf(d).instructions)]

\* C27: the line to_string gives for an instruction the parser has produced is
\* parsed by a new parser into an equal instruction, and for a From into a stage
\* with the name and the base image of the stage the From was parsed into.
C27_RoundTrip ==
    \A n \in 1..Len(dispatched) :
        dispatched[n].out.tag = "ok" =>
            \A line \in ToStrings(ProducedBy(dispatched[n])) :
                LET again == ParseNew(line)
                IN  /\ again.tag = "Ok"
                    /\ again.stages[1].instructions = <<ProducedBy(dispatched[n])>>
                    /\ IsFromLine(dispatched[n]) =>
                           /\ again.stages[1].name = StageOf(dispatched[n]).name
                           /\ again.stages[1].base_image = StageOf(dispatched[n]).base_image


----------------------------------------------------------------------------
(* Invariants of the accumulator.                                          *)

\* C28: stages is never empty and current_stage is the index of its last stage,
\* in every state, whatever calls were made.
C28_CurrentIsLast ==
    /\ stages # <<>>
    /\ current_stage = Len(stages) - 1
    /\ \A n \in 1..Len(dispatched) :
           /\ dispatched[n].out.stages # <<>>
           /\ dispatched[n].out.current_stage = Len(dispatched[n].out.stages) - 1

\* C28 witness: in its second call the parser has three stages, the last current
C28_Witness ==
    /\ calls = 2
    /\ Len(stages) = 3
    /\ current_stage = 2
    /\ stages[3].instructions # <<>>

\* the positions of the From instructions of a stage
FromPositions(stage) ==
    { j \in 1..Len(stage.instructions) : stage.instructions[j].kind = "From" }

\* C29: a stage has at most one From, which is then its first instruction; only
\* stage 0 can be without a From, and then it has no base image.
C29_OneFromPerStage ==
    \A k \in 1..Len(stages) :
        /\ FromPositions(stages[k]) \subseteq {1}
        /\ FromPositions(stages[k]) = {} => k = 1 /\ stages[k].base_image = None
        /\ FromPositions(stages[k]) = {1} =>
               stages[k].base_image = Some(stages[k].instructions[1].image)

\* C29 witness: stage 0 without a From and with two instructions, and a second
\* stage that starts with its From
C29_Witness ==
    /\ Len(stages) = 2
    /\ Len(stages[1].instructions) = 2
    /\ FromPositions(stages[1]) = {}
    /\ FromPositions(stages[2]) = {1}

\* this step has dispatched a logical line, whose parser returned an error
Failed == Len(dispatched') = Len(dispatched) + 1 /\ JustDispatched.out.tag = "err"

\* C30, one step: a parser that returns an error leaves stages and current_stage
\* as they were, so that the failed call leaves in the accumulator the
\* instructions of the logical lines before the failing one and nothing else.
FailureLeavesNoTrace ==
    Failed =>
        /\ stages' = stages
        /\ current_stage' = current_stage
        /\ pc' = "returned"
        /\ result' = [tag |-> "Err", err |-> JustDispatched.out.err]
        /\ InstructionCount(stages') = Len(dispatched)
        /\ \A n \in 1..Len(dispatched) : dispatched[n].out.tag = "ok"

\* C30: every step in which a parser returns an error leaves no trace of the line
C30_FailureLeavesNoTrace == [][FailureLeavesNoTrace]_vars

\* C30 witness: RUN x was recorded, then a VOLUME with a malformed array failed
\* and left the accumulator with the Run alone
C30_Witness ==
    /\ pc = "returned"
    /\ result = [tag |-> "Err", err |-> JsonError]
    /\ Len(dispatched) = 2
    /\ dispatched[2].instruction = <<"V", "O", "L", "U", "M", "E">>
    /\ stages = <<[name |-> None, base_image |-> None,
                   instructions |-> <<[kind |-> "Run", command |-> <<"x">>]>>]>>

====
